---- MODULE Spec2Model ----
(***************************************************************************)
(* A model of ssfmt (spreadsheet number-format compiler and evaluator):    *)
(* calendar arithmetic (date_serial.rs), the AST (ast.rs), the lexer and   *)
(* parser (parser/), section selection and the formatting dispatch         *)
(* (formatter/mod.rs, formatter/date.rs).                                  *)
(*                                                                         *)
(* Rust's integer `/` truncates toward zero; TruncDiv models it.  f64      *)
(* values are modelled by the exact numbers the model draws (small         *)
(* integers, and serials written as a whole day plus a tiny deviation).    *)
(***************************************************************************)
EXTENDS Integers, Sequences, FiniteSets, TLC

VARIABLES
    dsys,      \* calendar walk: the DateSystem of the call
    dcur,      \* calendar walk: the (Y, M, D) handed to date_to_serial
    dserial,   \* calendar walk: what date_to_serial returned
    dback,     \* calendar walk: what serial_to_date returned for dserial
    sn,        \* serial walk: the serial handed to serial_to_date (1900 system)
    sdate,     \* serial walk: what serial_to_date returned for sn
    sprev,     \* serial walk: what serial_to_date returned for sn - 1
    supplied,  \* formatting: the sections handed to NumberFormat::from_sections
    nf,        \* formatting: the sections of the NumberFormat (<<>> before it is built)
    fvalue,    \* formatting: the value of the last format or try_format call
    tried,     \* formatting: what the last try_format call returned
    rendered,  \* formatting: what the last format or format_text call returned
    ftext,     \* formatting: the text of the last format_text call
    code,      \* parsing: the format code handed to parse
    parser,    \* parsing: the Parser at work on code, and where parse stands
    logos,     \* cache: what the generated lexer of the build does (LexerModes)
    CACHE,     \* cache: the Mutex around the Option<LruCache>
    calls,     \* cache: the format call each thread is making
    uses,      \* cache: the keys in the order they were inserted or hit
    applied,   \* functions: the function that is called, with its arguments
    returned   \* functions: whether it has returned, and what

dateVars == <<dsys, dcur, dserial, dback>>
serialVars == <<sn, sdate, sprev>>
formatVars == <<supplied, nf, fvalue, tried, rendered, ftext>>
parseVars == <<code, parser>>
cacheVars == <<logos, CACHE, calls, uses>>
callVars == <<applied, returned>>
vars ==
    <<dsys, dcur, dserial, dback, sn, sdate, sprev, supplied, nf, fvalue, tried, rendered,
      ftext, code, parser, logos, CACHE, calls, uses, applied, returned>>

None == "none"

Abs(x) == IF x < 0 THEN -x ELSE x

Least(set) == CHOOSE i \in set : \A j \in set : i <= j

\* Rust's integer division: the quotient truncated toward zero.
TruncDiv(a, b) ==
    IF (a >= 0) = (b > 0) THEN Abs(a) \div Abs(b) ELSE -(Abs(a) \div Abs(b))

(***************************************************************************)
(* Text.  A string is a sequence of characters, each written as a          *)
(* one-character TLA+ string; "U+00E9" names the two-byte character e      *)
(* acute.  String::len() counts bytes, not characters.                     *)
(***************************************************************************)
Chars(str) == [i \in 1..Len(str) |-> SubSeq(str, i, i)]

Utf8Len(ch) == IF ch = "U+00E9" THEN 2 ELSE 1

RECURSIVE ByteLen(_)
ByteLen(str) == IF str = <<>> THEN 0 ELSE Utf8Len(Head(str)) + ByteLen(Tail(str))

RECURSIVE Digits(_)
\* The decimal digits of a natural number, as format!("{}", n) writes them.
Digits(n) ==
    IF n < 10 THEN <<ToString(n)>> ELSE Digits(n \div 10) \o <<ToString(n % 10)>>

\* format!("{:02}", n) for n >= 0.
Pad2(n) == (IF n < 10 THEN <<"0">> ELSE <<>>) \o Digits(n)

\* format!("{:0width$}", n)
PadTo(n, width) ==
    LET d == Digits(n)
    IN [i \in 1..(IF width > Len(d) THEN width - Len(d) ELSE 0) |-> "0"] \o d

RECURSIVE Concat(_)
Concat(strs) == IF strs = <<>> THEN <<>> ELSE Head(strs) \o Concat(Tail(strs))

(***************************************************************************)
(* f64 values.  The model draws whole numbers and their f64 neighbours:    *)
(* <<n, e>> is n itself (e = 0) or the representable value next below      *)
(* (e = -1) or above (e = 1) the whole number n, |n| >= 1.                 *)
(***************************************************************************)
F(n) == <<n, 0>>
FLt(a, b) == a[1] < b[1] \/ (a[1] = b[1] /\ a[2] < b[2])
FLe(a, b) == a = b \/ FLt(a, b)
FGt(a, b) == FLt(b, a)
FGe(a, b) == FLe(b, a)
FNeg(a) == <<-a[1], -a[2]>>
FAbs(a) == IF FLt(a, F(0)) THEN FNeg(a) ELSE a
FFloor(a) == IF a[2] < 0 THEN a[1] - 1 ELSE a[1]
FRound(a) == a[1]
FTrunc(a) == IF a[2] = 0 THEN a ELSE IF FLt(a, F(0)) THEN F(FFloor(a) + 1) ELSE F(FFloor(a))
FFractNonZero(a) == a[2] # 0

\* The values of f64 that are no numbers: the second component 3 marks
\* them, the first is the sign of an infinity.
NaN == <<0, 3>>
PosInfinity == <<1, 3>>
NegInfinity == <<-1, 3>>
SpecialValues == {NaN, PosInfinity, NegInfinity}

\* f64::is_nan, f64::is_infinite, f64::is_sign_positive
is_nan(value) == value = NaN
is_infinite(value) == value \in {PosInfinity, NegInfinity}
is_sign_positive(value) == value[1] >= 0
is_finite(value) == ~is_nan(value) /\ ~is_infinite(value)

\* (value - n).abs() < f64::EPSILON for a whole threshold n.  The gap to a
\* neighbour of n is below EPSILON (2^-52) only just under 1 and just
\* above -1, where f64 values are 2^-53 apart.
WithinEpsilon(value, n) ==
    /\ value[1] = n[1]
    /\ n[2] = 0
    /\ \/ value[2] = 0
       \/ (n[1] = 1 /\ value[2] = -1)
       \/ (n[1] = -1 /\ value[2] = 1)

(***************************************************************************)
(* f64 values with a fraction.  A value is sign * m * 2^e with a whole     *)
(* number m of at most 53 bits, held in limbs of 15 bits, the least        *)
(* significant first.  Products and quotients with a small whole number    *)
(* are computed exactly and then rounded to 53 bits, a tie going to the    *)
(* even neighbour, as the f64 operations of the processor do.              *)
(***************************************************************************)
Limb == 2 ^ 15

RECURSIVE BigTrim(_)
\* Without the leading zero limbs.
BigTrim(a) ==
    IF a # <<>> /\ a[Len(a)] = 0 THEN BigTrim(SubSeq(a, 1, Len(a) - 1)) ELSE a

RECURSIVE BigFromInt(_)
BigFromInt(n) == IF n = 0 THEN <<>> ELSE <<n % Limb>> \o BigFromInt(n \div Limb)

RECURSIVE BigToInt(_)
\* For a number below 2^31.
BigToInt(a) == IF a = <<>> THEN 0 ELSE a[1] + Limb * BigToInt(Tail(a))

RECURSIVE BigMulFrom(_, _, _, _)
BigMulFrom(a, k, i, carry) ==
    IF i > Len(a) THEN BigFromInt(carry)
    ELSE <<(a[i] * k + carry) % Limb>> \o BigMulFrom(a, k, i + 1, (a[i] * k + carry) \div Limb)

\* a * k for 0 <= k < Limb
BigMul(a, k) == BigTrim(BigMulFrom(a, k, 1, 0))

RECURSIVE BigAddFrom(_, _, _, _)
BigAddFrom(a, b, i, carry) ==
    IF i > Len(a) /\ i > Len(b) THEN BigFromInt(carry)
    ELSE LET t == (IF i <= Len(a) THEN a[i] ELSE 0) + (IF i <= Len(b) THEN b[i] ELSE 0) + carry
         IN <<t % Limb>> \o BigAddFrom(a, b, i + 1, t \div Limb)

BigAdd(a, b) == BigTrim(BigAddFrom(a, b, 1, 0))

RECURSIVE BigDivFrom(_, _, _, _, _)
\* Long division by k from the limb i down: the quotient and the remainder.
BigDivFrom(a, k, i, rem, q) ==
    IF i = 0 THEN [q |-> BigTrim(q), r |-> rem]
    ELSE BigDivFrom(a, k, i - 1, (rem * Limb + a[i]) % k,
                    <<(rem * Limb + a[i]) \div k>> \o q)

\* a divided by k, 0 < k < Limb
BigDivRem(a, k) == BigDivFrom(a, k, Len(a), 0, <<>>)

RECURSIVE BitsOf(_)
BitsOf(n) == IF n = 0 THEN 0 ELSE 1 + BitsOf(n \div 2)

BitLen(a) == IF a = <<>> THEN 0 ELSE 15 * (Len(a) - 1) + BitsOf(a[Len(a)])

BigOdd(a) == a # <<>> /\ a[1] % 2 = 1

\* a * 2^s
BigShiftLeft(a, s) ==
    IF a = <<>> THEN <<>> ELSE [i \in 1..(s \div 15) |-> 0] \o BigMul(a, 2 ^ (s % 15))

\* floor(a / 2^s), and whether bits were lost
BigShiftRight(a, s) ==
    LET limbs == IF s \div 15 > Len(a) THEN Len(a) ELSE s \div 15
        rest == BigDivRem(SubSeq(a, limbs + 1, Len(a)), 2 ^ (s % 15))
    IN [q |-> rest.q,
        lost |-> rest.r # 0 \/ \E i \in 1..limbs : a[i] # 0]

\* The low s bits of a.
BigLowBits(a, s) ==
    LET limbs == s \div 15
    IN IF limbs >= Len(a) THEN a
       ELSE BigTrim(SubSeq(a, 1, limbs) \o <<a[limbs + 1] % (2 ^ (s % 15))>>)

B64(negative, m, e) == [negative |-> negative, m |-> m, e |-> e]

\* The f64 nearest to the number m * 2^e, of which `inexact` says that it is
\* a little more than that: round to nearest, ties to even.
B64Round(negative, m, e, inexact) ==
    IF BitLen(m) <= 53 THEN B64(negative, m, e)
    ELSE LET s == BitLen(m) - 53
             kept == BigShiftRight(m, s - 1)
             q == BigDivRem(kept.q, 2).q
             up == BigOdd(kept.q) /\ (kept.lost \/ inexact \/ BigOdd(q))
         IN B64(negative, IF up THEN BigAdd(q, <<1>>) ELSE q, e + s)

\* n as f64, for a whole number n
B64FromInt(n) == B64(n < 0, BigFromInt(IF n < 0 THEN -n ELSE n), 0)

\* x * k for a whole number k, 0 <= k < Limb
B64Mul(x, k) == B64Round(x.negative, BigMul(x.m, k), x.e, FALSE)

\* x / k for a whole number k, 0 < k < Limb
B64DivBy(x, quotient) == B64Round(x.negative, quotient.q, x.e - 75, quotient.r # 0)
B64Div(x, k) == B64DivBy(x, BigDivRem(BigShiftLeft(x.m, 75), k))

\* The decimal num / den as the f64 a literal of it stands for.
B64Decimal(num, den) == B64Div(B64FromInt(num), den)

B64Abs(x) == [x EXCEPT !.negative = FALSE]

RECURSIVE BigLessFrom(_, _, _)
BigLessFrom(a, b, i) ==
    IF i = 0 THEN FALSE
    ELSE IF a[i] # b[i] THEN a[i] < b[i]
    ELSE BigLessFrom(a, b, i - 1)

\* a < b
BigLess(a, b) ==
    IF Len(a) # Len(b) THEN Len(a) < Len(b) ELSE BigLessFrom(a, b, Len(a))

RECURSIVE BigSubFrom(_, _, _, _)
BigSubFrom(a, b, i, borrow) ==
    IF i > Len(a) THEN <<>>
    ELSE LET t == a[i] - (IF i <= Len(b) THEN b[i] ELSE 0) - borrow
         IN <<(t + Limb) % Limb>> \o BigSubFrom(a, b, i + 1, IF t < 0 THEN 1 ELSE 0)

\* a - b for a >= b
BigSub(a, b) == BigTrim(BigSubFrom(a, b, 1, 0))

RECURSIVE LimbQuotient(_, _, _, _)
\* The greatest digit d with b * d <= rem, for rem < b * Limb, found from
\* the high bit down.
LimbQuotient(rem, b, bit, digit) ==
    IF bit < 0 THEN digit
    ELSE IF BigLess(rem, BigMul(b, digit + 2 ^ bit)) THEN LimbQuotient(rem, b, bit - 1, digit)
    ELSE LimbQuotient(rem, b, bit - 1, digit + 2 ^ bit)

RECURSIVE BigOverFrom(_, _, _, _, _), BigOverNext(_, _, _, _, _, _)
\* Long division of a by b from the limb i down, a limb at a time: rem and
\* q are the remainder and the quotient of the limbs above it.
BigOverFrom(a, b, i, rem, q) ==
    IF i = 0 THEN [q |-> BigTrim(q), r |-> rem]
    ELSE BigOverNext(a, b, i, BigTrim(<<a[i]>> \o rem), q,
                     LimbQuotient(BigTrim(<<a[i]>> \o rem), b, 14, 0))

BigOverNext(a, b, i, rem, q, digit) ==
    IF digit = 0 THEN BigOverFrom(a, b, i - 1, rem, <<0>> \o q)
    ELSE BigOverFrom(a, b, i - 1, BigSub(rem, BigMul(b, digit)), <<digit>> \o q)

\* x / y for y # 0: the digits of x, shifted left by n limbs for 60 bits
\* and more in the quotient, over the digits of y, rounded.
B64QuotOf(x, y, n, quotient) ==
    B64Round(x.negative # y.negative, quotient.q, x.e - y.e - 15 * n, quotient.r # <<>>)
B64Quot(x, y) ==
    IF x.m = <<>> \/ y.m = <<>> THEN B64(x.negative # y.negative, <<>>, 0)
    ELSE B64QuotOf(x, y, Len(y.m) + 4,
                   BigOverFrom([i \in 1..(Len(y.m) + 4) |-> 0] \o x.m, y.m,
                               Len(y.m) + 4 + Len(x.m), <<>>, <<>>))

\* 1.0 / x
B64Recip(x) == B64Quot(B64FromInt(1), x)

\* The whole number nearest to x >= 0, a tie going to the even neighbour.
B64RoundHalfEven(x) ==
    IF x.e >= 0 THEN BigShiftLeft(x.m, x.e)
    ELSE LET kept == BigShiftRight(x.m, -x.e - 1)
             q == BigDivRem(kept.q, 2).q
         IN IF BigOdd(kept.q) /\ (kept.lost \/ BigOdd(q)) THEN BigAdd(q, <<1>>) ELSE q

\* x < y for values that are not negative
B64Less(x, y) ==
    IF x.e <= y.e THEN BigLess(x.m, BigShiftLeft(y.m, y.e - x.e))
    ELSE BigLess(BigShiftLeft(x.m, x.e - y.e), y.m)

\* f64::trunc of a value that is not negative, as a whole number
B64Trunc(x) == IF x.e >= 0 THEN BigShiftLeft(x.m, x.e) ELSE BigShiftRight(x.m, -x.e).q

\* f64::fract of a value that is not negative
B64Fract(x) == IF x.e >= 0 THEN B64(FALSE, <<>>, 0) ELSE B64(FALSE, BigLowBits(x.m, -x.e), x.e)

\* f64::round of a value that is not negative, as a whole number: a half
\* and more rounds up.
B64RoundHalfUp(x) ==
    IF x.e >= 0 THEN BigShiftLeft(x.m, x.e)
    ELSE IF BigOdd(BigShiftRight(x.m, -x.e - 1).q)
    THEN BigAdd(BigShiftRight(x.m, -x.e).q, <<1>>)
    ELSE BigShiftRight(x.m, -x.e).q

RECURSIVE BigDigits(_)
\* u64::to_string
BigDigits(a) ==
    IF Len(a) <= 1 THEN Digits(BigToInt(a))
    ELSE BigDigits(BigDivRem(a, 10).q) \o <<ToString(BigDivRem(a, 10).r)>>

(***************************************************************************)
(* ast.rs                                                                  *)
(***************************************************************************)
ConditionOps == {"GreaterThan", "LessThan", "Equal", "GreaterOrEqual", "LessOrEqual", "NotEqual"}

Cond(op, n) == [op |-> op, n |-> n]

\* Option<Condition>::None and Option<Color>::None
NoCondition == [op |-> "None", n |-> F(0)]
NoColor == "none"

\* Condition::evaluate
evaluate(c, value) ==
    CASE c.op = "GreaterThan" -> FGt(value, c.n)
      [] c.op = "LessThan" -> FLt(value, c.n)
      [] c.op = "Equal" -> WithinEpsilon(value, c.n)
      [] c.op = "GreaterOrEqual" -> FGe(value, c.n)
      [] c.op = "LessOrEqual" -> FLe(value, c.n)
      [] c.op = "NotEqual" -> ~WithinEpsilon(value, c.n)

\* Condition::is_strict_match
is_strict_match(c, value) ==
    CASE c.op = "GreaterThan" -> FGt(value, c.n)
      [] c.op = "LessThan" -> FLt(value, c.n)
      [] c.op = "Equal" -> WithinEpsilon(value, c.n)
      [] c.op = "GreaterOrEqual" -> FGt(value, c.n)
      [] c.op = "LessOrEqual" -> FLt(value, c.n)
      [] c.op = "NotEqual" -> ~WithinEpsilon(value, c.n)

\* FormatPart: a record with a kind and, where the variant carries one, an
\* argument (the text of a literal, the DatePart or ElapsedPart kind, ...).
\* The argument is a sequence of strings; n is the number a variant carries
\* (the places of SubSecond, the fixed denominator of a Fraction), else 0.
Part(kind, arg, n) == [kind |-> kind, arg |-> arg, n |-> n]
Literal(str) == Part("Literal", str, 0)
EscapedLiteral(str) == Part("EscapedLiteral", str, 0)
Digit(ph) == Part("Digit", <<ph>>, 0)
DatePart(k) == Part("DatePart", <<k>>, 0)
SubSecond(places) == Part("DatePart", <<"SubSecond">>, places)
Elapsed(k) == Part("Elapsed", <<k>>, 0)
AmPm(k) == Part("AmPm", <<k>>, 0)
Scientific(upper, show_plus) ==
    Part("Scientific", <<IF upper THEN "E" ELSE "e", IF show_plus THEN "+" ELSE "">>, 0)
\* An improper fraction with a fixed denominator: integer_digits empty,
\* denominator Fixed(d), no spaces around the slash.
Fraction(numerator_digits, d) == Part("Fraction", numerator_digits, d)
Fill(ch) == Part("Fill", <<ch>>, 0)
Skip(ch) == Part("Skip", <<ch>>, 0)
Bare(kind) == Part(kind, <<>>, 0)

\* FormatPart::is_date_part
is_date_part(p) == p.kind \in {"DatePart", "AmPm", "Elapsed"}

\* FormatPart::is_numeric_part
is_numeric_part(p) ==
    p.kind \in {"Digit", "DecimalPoint", "ThousandsSeparator", "Percent", "Scientific", "Fraction"}

Range(seq) == {seq[i] : i \in 1..Len(seq)}

Section(condition, color, parts) == [condition |-> condition, color |-> color, parts |-> parts]

\* Section::has_date_parts
has_date_parts(sec) == \E p \in Range(sec.parts) : is_date_part(p)

\* Section::has_text_placeholder
has_text_placeholder(sec) == \E p \in Range(sec.parts) : p.kind = "TextPlaceholder"

\* NumberFormat::from_sections: into_iter().take(4) when more than 4.
from_sections(sections) ==
    IF Len(sections) > 4 THEN SubSeq(sections, 1, 4) ELSE sections

(***************************************************************************)
(* formatter/mod.rs: NumberFormat::select_section.  The result is the      *)
(* 1-based index of the section returned.                                  *)
(***************************************************************************)
RECURSIVE SelectConditional(_, _, _)
\* The for loop of lines 123-134, from section i on.
SelectConditional(sections, value, i) ==
    IF i > Len(sections) THEN Len(sections)
    ELSE IF sections[i].condition # NoCondition
         THEN (IF evaluate(sections[i].condition, value) THEN i
               ELSE SelectConditional(sections, value, i + 1))
         ELSE i

\* Mutant: a zero value always takes the third section.
select_section_ZeroAlwaysThird(sections, value) ==
    LET has_conditions == \E i \in 1..Len(sections) : sections[i].condition # NoCondition
    IN IF has_conditions THEN SelectConditional(sections, value, 1)
       ELSE CASE Len(sections) = 1 -> 1
              [] Len(sections) = 2 -> (IF FLt(value, F(0)) THEN 2 ELSE 1)
              [] Len(sections) \in {3, 4} ->
                    IF FGt(value, F(0)) THEN 1
                    ELSE IF FLt(value, F(0)) THEN 2
                    ELSE 3
              [] OTHER -> 1

select_section(sections, value) ==
    LET has_conditions == \E i \in 1..Len(sections) : sections[i].condition # NoCondition
    IN IF has_conditions THEN SelectConditional(sections, value, 1)
       ELSE CASE Len(sections) = 1 -> 1
              [] Len(sections) = 2 -> (IF FLt(value, F(0)) THEN 2 ELSE 1)
              [] Len(sections) \in {3, 4} ->
                    IF FGt(value, F(0)) THEN 1
                    ELSE IF FLt(value, F(0)) THEN 2
                    ELSE IF /\ has_text_placeholder(sections[3])
                            /\ ~\E p \in Range(sections[3].parts) :
                                    \/ is_numeric_part(p)
                                    \/ p.kind \in {"Literal", "EscapedLiteral"}
                         THEN 1
                         ELSE 3
              [] OTHER -> 1

(***************************************************************************)
(* Bounds of the calendar walks.                                           *)
(***************************************************************************)
\* The walks cover the years FirstYear .. FirstYear + SpanYears - 1 (more
\* than one whole 400-year Gregorian cycle) and the last TailYears years
\* up to LastYear.
SpanYears == 402
TailYears == 3

FirstYear == 1900
MaxSerial == 2958465

(***************************************************************************)
(* The reference calendar the claims are stated against.                   *)
(***************************************************************************)
IsLeap(y) == (y % 4 = 0 /\ y % 100 # 0) \/ y % 400 = 0

DaysInMonth(y, m) ==
    IF m = 2 THEN (IF IsLeap(y) THEN 29 ELSE 28)
    ELSE IF m \in {4, 6, 9, 11} THEN 30 ELSE 31

\* The Gregorian day after (y, m, d).
GregNext(t) ==
    IF t[3] < DaysInMonth(t[1], t[2]) THEN <<t[1], t[2], t[3] + 1>>
    ELSE IF t[2] < 12 THEN <<t[1], t[2] + 1, 1>>
    ELSE <<t[1] + 1, 1, 1>>

\* The day after in Excel's 1900 calendar, which has a 1900-02-29.
ExcelNext(t, sys) ==
    IF sys = "Date1900" /\ t = <<1900, 2, 28>> THEN <<1900, 2, 29>>
    ELSE IF sys = "Date1900" /\ t = <<1900, 2, 29>> THEN <<1900, 3, 1>>
    ELSE GregNext(t)

(***************************************************************************)
(* date_serial.rs                                                          *)
(***************************************************************************)
\* Mutant: the Julian-day branch with the phantom day subtracted.
serial_to_date_1900_Shifted(days) ==
    IF days = 60 THEN <<1900, 2, 29>>
    ELSE IF days < 60 THEN
        (IF days < 32 THEN <<1900, 1, days>> ELSE <<1900, 2, days - 31>>)
    ELSE
        LET l0 == (days - 1) + 68569 + 2415019
            n == TruncDiv(4 * l0, 146097)
            l1 == l0 - TruncDiv(146097 * n + 3, 4)
            i == TruncDiv(4000 * (l1 + 1), 1461001)
            l2 == l1 - TruncDiv(1461 * i, 4) + 31
            j == TruncDiv(80 * l2, 2447)
            n_day == l2 - TruncDiv(2447 * j, 80)
            l3 == TruncDiv(j, 11)
        IN <<100 * (n - 49) + i + l3, j + 2 - (12 * l3), n_day>>

serial_to_date_1900(days) ==
    IF days = 60 THEN <<1900, 2, 29>>
    ELSE IF days < 60 THEN
        (IF days < 32 THEN <<1900, 1, days>> ELSE <<1900, 2, days - 31>>)
    ELSE
        LET ord == days
            l0 == ord + 68569 + 2415019
            n == TruncDiv(4 * l0, 146097)
            l1 == l0 - TruncDiv(146097 * n + 3, 4)
            i == TruncDiv(4000 * (l1 + 1), 1461001)
            l2 == l1 - TruncDiv(1461 * i, 4) + 31
            j == TruncDiv(80 * l2, 2447)
            n_day == l2 - TruncDiv(2447 * j, 80)
            l3 == TruncDiv(j, 11)
            n_month == j + 2 - (12 * l3)
            n_year == 100 * (n - 49) + i + l3
        IN <<n_year, n_month, n_day>>

serial_to_date_1904(days) == serial_to_date_1900(days + 1462)

\* serial is a whole number of days here, so serial.floor() is serial.
serial_to_date(serial, system) ==
    LET days == serial
    IN IF days < 1 THEN None
       ELSE IF system = "Date1900" THEN serial_to_date_1900(days)
       ELSE serial_to_date_1904(days)

\* Mutant: the leap-year-bug day is not added after 1900-02-28.
date_to_serial_1900_NoPhantom(year, month, day) ==
    IF year = 1900 /\ month = 2 /\ day = 29 THEN 60
    ELSE
        LET y == year - (IF month <= 2 THEN 1 ELSE 0)
            era == TruncDiv(IF y >= 0 THEN y ELSE y - 399, 400)
            yoe == y - era * 400
            doy == TruncDiv(153 * (month + (IF month > 2 THEN -3 ELSE 9)) + 2, 5) + day - 1
            doe == yoe * 365 + TruncDiv(yoe, 4) - TruncDiv(yoe, 100) + doy
        IN era * 146097 + doe - 719468 + 25568

date_to_serial_1900(year, month, day) ==
    IF year = 1900 /\ month = 2 /\ day = 29 THEN 60
    ELSE
        LET y == year - (IF month <= 2 THEN 1 ELSE 0)
            era == TruncDiv(IF y >= 0 THEN y ELSE y - 399, 400)
            yoe == y - era * 400
            m == month
            d == day
            doy == TruncDiv(153 * (m + (IF m > 2 THEN -3 ELSE 9)) + 2, 5) + d - 1
            doe == yoe * 365 + TruncDiv(yoe, 4) - TruncDiv(yoe, 100) + doy
            days_since_epoch == era * 146097 + doe - 719468
            serial == days_since_epoch + 25568
        IN IF serial >= 60 THEN serial + 1 ELSE serial

date_to_serial_1904(year, month, day) == date_to_serial_1900(year, month, day) - 1462

date_to_serial(year, month, day, system) ==
    IF system = "Date1900" THEN date_to_serial_1900(year, month, day)
    ELSE date_to_serial_1904(year, month, day)

(***************************************************************************)
(* The calendar walk: date_to_serial, then serial_to_date, on every day.   *)
(***************************************************************************)
DateSystems == {"Date1900", "Date1904"}

WalkYears == (FirstYear .. (FirstYear + SpanYears - 1)) \cup ((9999 - TailYears + 1) .. 9999)

\* Day 1 of a system: the first date its serials can name.
DayOne(sys) == IF sys = "Date1900" THEN <<1900, 1, 1>> ELSE <<1904, 1, 2>>

WalkStart(sys, y) ==
    IF y = DayOne(sys)[1] THEN DayOne(sys) ELSE <<y, 1, 1>>

RoundTrip(t, sys) ==
    LET s == date_to_serial(t[1], t[2], t[3], sys)
    IN <<s, serial_to_date(s, sys)>>

DateInit ==
    /\ dsys \in DateSystems
    /\ \E y \in WalkYears :
        /\ y >= DayOne(dsys)[1]
        /\ dcur = WalkStart(dsys, y)
    /\ dserial = RoundTrip(dcur, dsys)[1]
    /\ dback = RoundTrip(dcur, dsys)[2]

\* The caller converts the next day of the same year.
NextDate ==
    /\ ExcelNext(dcur, dsys)[1] = dcur[1]
    /\ dcur' = ExcelNext(dcur, dsys)
    /\ dserial' = RoundTrip(dcur', dsys)[1]
    /\ dback' = RoundTrip(dcur', dsys)[2]
    /\ UNCHANGED dsys

(***************************************************************************)
(* The serial walk: serial_to_date on consecutive serials (1900 system).   *)
(***************************************************************************)
SerialOfYearStart(y) == date_to_serial_1900(y, 1, 1)

SerialInit ==
    /\ \E y \in WalkYears : sn = SerialOfYearStart(y)
    /\ sdate = serial_to_date(sn, "Date1900")
    /\ sprev = IF sn > 1 THEN serial_to_date(sn - 1, "Date1900") ELSE None

\* The caller converts the next serial, up to the last day of the year.
NextSerial ==
    /\ sn < MaxSerial
    /\ ~(sdate[2] = 12 /\ sdate[3] = 31)
    /\ sn' = sn + 1
    /\ sdate' = serial_to_date(sn', "Date1900")
    /\ sprev' = sdate

(***************************************************************************)
(* formatter/mod.rs: fallback_format, for the values of the model.  A      *)
(* whole number below 10^10 or one of its neighbours is printed in decimal *)
(* notation with the trailing zeros trimmed: the digits of the nearest     *)
(* whole number.  A whole number of more digits, exact in f64, is the      *)
(* triple <<n, 0, digits>> of a number n that stands for its size in       *)
(* comparisons with the small values and its decimal digits.               *)
(***************************************************************************)
Wide(negative, digits) == <<IF negative THEN -2147483647 ELSE 2147483647, 0, digits>>

is_wide(value) == Len(value) = 3

\* The value of a decimal digit.
DigitOf(ch) == CHOOSE d \in 0..9 : ToString(d) = ch

RECURSIVE Increment(_)
\* The digits of n + 1 from the digits of n.
Increment(digits) ==
    IF digits = <<>> THEN <<"1">>
    ELSE IF digits[Len(digits)] = "9"
    THEN Increment(SubSeq(digits, 1, Len(digits) - 1)) \o <<"0">>
    ELSE SubSeq(digits, 1, Len(digits) - 1) \o <<ToString(DigitOf(digits[Len(digits)]) + 1)>>

RECURSIVE trim_end_zeros(_)
\* str.trim_end_matches('0')
trim_end_zeros(str) ==
    IF str # <<>> /\ str[Len(str)] = "0" THEN trim_end_zeros(SubSeq(str, 1, Len(str) - 1))
    ELSE str

\* abs_value >= 1e11, for a whole number given by its digits
use_scientific(digits) == Len(digits) >= 12

\* The digits of the mantissa of format!("{:.5E}", value) for a whole number
\* of more than six digits: the first six, rounded on the rest, a tie to
\* the even digit.  A carry out of the first digit makes them seven.
Mantissa(digits) ==
    LET head == SubSeq(digits, 1, 6)
        rest == SubSeq(digits, 7, Len(digits))
        next == DigitOf(rest[1])
        more == \E i \in 2..Len(rest) : rest[i] # "0"
        odd == DigitOf(head[6]) % 2 = 1
    IN IF next > 5 \/ (next = 5 /\ (more \/ odd)) THEN Increment(head) ELSE head

\* The mantissa with its trailing zeros and a trailing '.' removed, then
\* the exponent as format!("E{:+03}") writes it.
ScientificText(m, exp_value) ==
    LET decimals == trim_end_zeros(SubSeq(m, 2, 6))
    IN <<m[1]>> \o (IF decimals = <<>> THEN <<>> ELSE <<".">> \o decimals)
       \o <<"E", "+">> \o (IF exp_value < 10 THEN <<"0">> ELSE <<>>) \o Digits(exp_value)

\* The use_scientific branch of fallback_format.
Scientific5(digits, m) ==
    ScientificText(m, IF Len(m) > 6 THEN Len(digits) ELSE Len(digits) - 1)

fallback_format(value) ==
    IF value = F(0) THEN <<"0">>
    ELSE (IF FLt(value, F(0)) THEN <<"-">> ELSE <<>>)
         \o (IF is_wide(value)
             THEN (IF use_scientific(value[3]) THEN Scientific5(value[3], Mantissa(value[3]))
                   ELSE value[3])
             ELSE Digits(Abs(FRound(value))))

(***************************************************************************)
(* formatter/number.rs.                                                    *)
(***************************************************************************)
AnalysisInit ==
    [integer_placeholders |-> <<>>, decimal_placeholders |-> <<>>,
     has_thousands_separator |-> FALSE, percent_count |-> 0, inline_literals |-> <<>>,
     prefix_parts |-> <<>>, suffix_parts |-> <<>>,
     seen_digit |-> FALSE, after_decimal |-> FALSE, after_digits |-> FALSE]

\* One iteration of the loop of analyze_format over the parts.
AnalyzePart(a, part) ==
    CASE part.kind = "Digit" ->
            IF a.after_decimal
            THEN [a EXCEPT !.seen_digit = TRUE, !.after_digits = FALSE,
                           !.decimal_placeholders = Append(@, part.arg[1])]
            ELSE [a EXCEPT !.seen_digit = TRUE, !.after_digits = FALSE,
                           !.integer_placeholders = Append(@, part.arg[1])]
      [] part.kind = "DecimalPoint" ->
            [a EXCEPT !.after_decimal = TRUE, !.seen_digit = TRUE, !.after_digits = TRUE]
      [] part.kind = "ThousandsSeparator" -> [a EXCEPT !.has_thousands_separator = TRUE]
      [] part.kind = "Percent" ->
            IF a.seen_digit
            THEN [a EXCEPT !.percent_count = @ + 1, !.after_digits = TRUE,
                           !.suffix_parts = Append(@, part)]
            ELSE [a EXCEPT !.percent_count = @ + 1, !.prefix_parts = Append(@, part)]
      [] part.kind \in {"Literal", "EscapedLiteral"} ->
            IF ~a.seen_digit THEN [a EXCEPT !.prefix_parts = Append(@, part)]
            ELSE IF a.after_digits THEN [a EXCEPT !.suffix_parts = Append(@, part)]
            ELSE [a EXCEPT !.inline_literals =
                               Append(@, [at |-> Len(a.integer_placeholders), text |-> part.arg])]
      [] part.kind = "Skip" ->
            IF ~a.seen_digit THEN [a EXCEPT !.prefix_parts = Append(@, Literal(<<" ">>))]
            ELSE [a EXCEPT !.suffix_parts = Append(@, Literal(<<" ">>))]
      [] OTHER ->
            IF ~a.seen_digit THEN [a EXCEPT !.prefix_parts = Append(@, part)]
            ELSE IF a.after_digits THEN [a EXCEPT !.suffix_parts = Append(@, part)]
            ELSE a

RECURSIVE AnalyzeFrom(_, _, _)
AnalyzeFrom(parts, i, a) ==
    IF i > Len(parts) THEN a ELSE AnalyzeFrom(parts, i + 1, AnalyzePart(a, parts[i]))

\* The ThousandsSeparator parts behind the last Digit or DecimalPoint part.
TrailingCommas(parts) ==
    LET numeric == {i \in 1..Len(parts) : parts[i].kind \in {"Digit", "DecimalPoint"}}
    IN Cardinality({i \in 1..Len(parts) :
                       /\ parts[i].kind = "ThousandsSeparator"
                       /\ \A j \in numeric : j < i})

analyze_format(sec) ==
    LET a == AnalyzeFrom(sec.parts, 1, AnalysisInit)
        placeholders == IF a.integer_placeholders = <<>> /\ ~a.after_decimal THEN <<"Hash">>
                        ELSE a.integer_placeholders
        total == Len(placeholders)
    IN [integer_placeholders |-> placeholders,
        decimal_placeholders |-> a.decimal_placeholders,
        has_thousands_separator |-> a.has_thousands_separator,
        percent_count |-> a.percent_count,
        thousands_scale |-> TrailingCommas(sec.parts),
        inline_literals |->
            [k \in 1..Len(a.inline_literals) |->
                [at |-> total - a.inline_literals[k].at, text |-> a.inline_literals[k].text]],
        prefix_parts |-> a.prefix_parts,
        suffix_parts |-> a.suffix_parts]

\* DigitPlaceholder::empty_char
empty_char(ph) == CASE ph = "Zero" -> <<"0">> [] ph = "Hash" -> <<>> [] ph = "Question" -> <<" ">>

RECURSIVE LiteralsAt(_, _, _)
\* The texts of the inline literals at the positions in `at`, in order.
LiteralsAt(lits, at, k) ==
    IF k > Len(lits) THEN <<>>
    ELSE (IF lits[k].at \in at THEN lits[k].text ELSE <<>>) \o LiteralsAt(lits, at, k + 1)

RECURSIVE LeftLiterals(_, _, _)
\* Literals left of every digit shown, each inserted at the front in turn.
LeftLiterals(lits, output_len, k) ==
    IF k > Len(lits) THEN <<>>
    ELSE LeftLiterals(lits, output_len, k + 1)
         \o (IF lits[k].at >= output_len THEN lits[k].text ELSE <<>>)

RECURSIVE IntegerFrom(_, _, _, _, _, _)
\* The loop of format_integer, read from the leftmost position down to 0.
IntegerFrom(value_digits, placeholders, use_thousands, lits, interspersed, pos) ==
    IF pos < 0 THEN <<>>
    ELSE LET digit_index == Len(value_digits) - 1 - pos
             placeholder_index == Len(placeholders) - 1 - pos
             shown == IF digit_index >= 0 THEN <<value_digits[digit_index + 1]>>
                      ELSE IF interspersed THEN <<"0">>
                      ELSE IF placeholder_index >= 0
                           THEN empty_char(placeholders[placeholder_index + 1])
                           ELSE <<>>
         IN shown \o LiteralsAt(lits, {pos}, 1)
            \o (IF use_thousands /\ pos > 0 /\ pos % 3 = 0 THEN <<",">> ELSE <<>>)
            \o IntegerFrom(value_digits, placeholders, use_thousands, lits, interspersed,
                           pos - 1)

format_integer(value, placeholders, use_thousands, inline_literals) ==
    LET value_digits == Digits(value)
        min_digits == Cardinality({i \in 1..Len(placeholders) : placeholders[i] = "Zero"})
        transitions == Cardinality({i \in 2..Len(placeholders) :
                                        placeholders[i] # placeholders[i - 1]})
        interspersed == transitions > 1
        output_len == IF interspersed THEN Len(value_digits) + min_digits
                      ELSE IF Len(value_digits) > min_digits THEN Len(value_digits)
                      ELSE min_digits
        positions == {inline_literals[k].at : k \in 1..Len(inline_literals)}
        RECURSIVE Descending(_)
        Descending(at) ==
            IF at < 0 THEN <<>>
            ELSE LiteralsAt(inline_literals, {at}, 1) \o Descending(at - 1)
    IN IF value = 0 /\ min_digits = 0
       THEN Descending(Len(placeholders))
       ELSE LeftLiterals(inline_literals, output_len, 1)
            \o IntegerFrom(value_digits, placeholders, use_thousands, inline_literals,
                           interspersed, output_len - 1)

RECURSIVE RenderAffix(_)
\* The prefix and suffix loops of build_result.
RenderAffix(parts) ==
    IF parts = <<>> THEN <<>>
    ELSE (CASE Head(parts).kind \in {"Literal", "EscapedLiteral"} -> Head(parts).arg
            [] Head(parts).kind = "Percent" -> <<"%">>
            [] OTHER -> <<>>)
         \o RenderAffix(Tail(parts))

build_result(analysis, formatted) ==
    RenderAffix(analysis.prefix_parts) \o formatted \o RenderAffix(analysis.suffix_parts)

RECURSIVE Pow(_, _)
Pow(b, k) == IF k = 0 THEN 1 ELSE b * Pow(b, k - 1)

\* Rounds num / den (both positive) to a whole number, a tie going to the
\* even neighbour as format!("{:.0}") does; `e` says on which side of
\* num / den the f64 value lies when it is not exact.
RoundHalfEven(num, den, e) ==
    LET q == num \div den
        r == num % den
    IN IF 2 * r < den THEN q
       ELSE IF 2 * r > den THEN q + 1
       ELSE IF e < 0 THEN q
       ELSE IF e > 0 THEN q + 1
       ELSE IF q % 2 = 0 THEN q ELSE q + 1

\* abs_value.log10().floor() for a value of the model that is not 0.
FloorLog10(value) ==
    LET n == Abs(value[1])
        below == (IF FLt(value, F(0)) THEN -value[2] ELSE value[2]) < 0
    IN IF below /\ n = Pow(10, Len(Digits(n)) - 1) THEN Len(Digits(n)) - 2
       ELSE Len(Digits(n)) - 1

\* The exponent of format_scientific from base_exponent =
\* abs_value.log10().floor()
scientific_exponent(base_exponent, mantissa_integer_places) ==
    IF mantissa_integer_places > 1
    THEN TruncDiv(base_exponent, mantissa_integer_places) * mantissa_integer_places
    ELSE base_exponent

\* format_scientific, for a mantissa without decimal places.
format_scientific(value, sec, upper, show_plus) ==
    LET at == CHOOSE i \in 1..Len(sec.parts) :
                  /\ sec.parts[i].kind = "Scientific"
                  /\ \A j \in 1..(i - 1) : sec.parts[j].kind # "Scientific"
        mantissa_integer_places ==
            Cardinality({i \in 1..(at - 1) : sec.parts[i].kind = "Digit"})
        exponent_digits ==
            Cardinality({i \in (at + 1)..Len(sec.parts) : sec.parts[i].kind = "Digit"})
        exp_char == IF upper THEN <<"E">> ELSE <<"e">>
        base_exponent == FloorLog10(value)
        exponent == scientific_exponent(base_exponent, mantissa_integer_places)
        side == IF FLt(value, F(0)) THEN -value[2] ELSE value[2]
        mantissa == IF exponent >= 0
                    THEN RoundHalfEven(Abs(value[1]), Pow(10, exponent), side)
                    ELSE Abs(value[1]) * Pow(10, -exponent)
        exp_sign == IF exponent >= 0 THEN (IF show_plus THEN <<"+">> ELSE <<>>) ELSE <<"-">>
        exp_str == IF exponent_digits >= 2 THEN Pad2(Abs(exponent)) ELSE Digits(Abs(exponent))
        formatted == Digits(mantissa) \o exp_char \o exp_sign \o exp_str
    IN IF value = F(0)
       THEN [ok |-> TRUE,
             text |-> <<"0">> \o exp_char \o (IF show_plus THEN <<"+">> ELSE <<>>)
                      \o <<"0", "0">>]
       ELSE [ok |-> TRUE,
             text |-> (IF FLt(value, F(0)) THEN <<"-">> ELSE <<>>) \o formatted]

RECURSIVE DecimalFloorLog10(_, _)
\* abs_value.log10().floor() for the f64 of the decimal num / den > 0 of at
\* most 7 digits: the f64 is within 2^-53 of the decimal, its logarithm
\* rounds to the whole number when the decimal is a power of ten, and is
\* farther than that from a whole number when it is not.
DecimalFloorLog10(num, den) ==
    IF num >= den THEN Len(Digits(num \div den)) - 1
    ELSE DecimalFloorLog10(10 * num, den) - 1

RECURSIVE BigPadTo(_, _)
BigPadTo(digits, width) == IF Len(digits) < width THEN BigPadTo(<<"0">> \o digits, width) ELSE digits

\* format!("{:.prec$}", x) for x >= 0: the decimal digits of the binary
\* value of x, a tie at the last place going to the even digit.
FixedDecimals(x, prec) ==
    LET shown == BigPadTo(BigDigits(B64RoundHalfEven(B64(FALSE, BigMul(x.m, Pow(10, prec)), x.e))),
                          prec + 1)
    IN SubSeq(shown, 1, Len(shown) - prec)
       \o (IF prec > 0 THEN <<".">> \o SubSeq(shown, Len(shown) - prec + 1, Len(shown))
           ELSE <<>>)

\* 10_f64.powi(exponent): 10^|exponent| by multiplication, and 1.0 over it
\* for an exponent below 0.
Powi10(exponent) ==
    IF exponent >= 0 THEN B64FromInt(Pow(10, exponent))
    ELSE B64Recip(B64FromInt(Pow(10, -exponent)))

\* format_scientific on the f64 of the decimal num / den with its sign, for
\* a section with the given numbers of placeholders in the mantissa and the
\* exponent.
format_scientific_decimal(negative, num, den, mantissa_integer_places, mantissa_decimal_places, exponent_digits, upper, show_plus) ==
    LET exp_char == IF upper THEN <<"E">> ELSE <<"e">>
        exponent == scientific_exponent(DecimalFloorLog10(num, den), mantissa_integer_places)
        mantissa == B64Quot(B64Decimal(num, den), Powi10(exponent))
        exp_sign == IF exponent >= 0 THEN (IF show_plus THEN <<"+">> ELSE <<>>) ELSE <<"-">>
        exp_str == IF exponent_digits >= 2 THEN Pad2(Abs(exponent)) ELSE Digits(Abs(exponent))
    IN IF num = 0
       THEN <<"0">>
            \o (IF mantissa_decimal_places > 0
                THEN <<".">> \o [i \in 1..mantissa_decimal_places |-> "0"] ELSE <<>>)
            \o exp_char \o (IF show_plus THEN <<"+">> ELSE <<>>) \o <<"0", "0">>
       ELSE (IF negative THEN <<"-">> ELSE <<>>)
            \o FixedDecimals(mantissa, mantissa_decimal_places)
            \o exp_char \o exp_sign \o exp_str

\* format_simple_with_placeholders: the digits of value, padded on the left
\* with each unused placeholder's empty_char.
format_simple_with_placeholders(value, placeholders) ==
    LET d == Digits(value)
    IN Concat([i \in 1..(IF Len(placeholders) > Len(d) THEN Len(placeholders) - Len(d) ELSE 0)
                  |-> empty_char(placeholders[i])]) \o d

\* formatter/fraction.rs: format_fraction, for an improper fraction with a
\* fixed denominator.
format_fraction(value, sec) ==
    IF ~\E p \in Range(sec.parts) : p.kind = "Fraction"
    THEN [ok |-> FALSE, text |-> <<>>]
    ELSE LET f == sec.parts[CHOOSE i \in 1..Len(sec.parts) :
                        /\ sec.parts[i].kind = "Fraction"
                        /\ \A j \in 1..(i - 1) : sec.parts[j].kind # "Fraction"]
             num == Abs(FRound(value)) * f.n
         IN [ok |-> TRUE,
             text |-> (IF FLt(value, F(0)) THEN <<"-">> ELSE <<>>)
                      \o format_simple_with_placeholders(num, f.arg)
                      \o <<"/">> \o Digits(f.n)]

\* format_decimal on the fraction `value`, for up to 4 placeholders.
format_decimal(value, placeholders) ==
    LET places == Len(placeholders)
        decimal_int == BigToInt(B64RoundHalfUp(B64Mul(value, Pow(10, places))))
        decimal_chars == PadTo(decimal_int, places)
        droppable == {i \in 1..places :
                         \A j \in i..places : decimal_chars[j] = "0" /\ placeholders[j] # "Zero"}
        trailing_zeros_start == IF droppable = {} THEN places + 1 ELSE Least(droppable)
    IN Concat([i \in 1..places |->
                  IF i >= trailing_zeros_start /\ decimal_chars[i] = "0"
                     /\ placeholders[i] # "Zero"
                  THEN (IF placeholders[i] = "Question" THEN <<" ">> ELSE <<>>)
                  ELSE <<decimal_chars[i]>>])

\* format_with_placeholders
format_with_placeholders(value, analysis) ==
    LET integer_str == format_integer(BigToInt(B64Trunc(value)), analysis.integer_placeholders,
                                      analysis.has_thousands_separator,
                                      analysis.inline_literals)
    IN IF Len(analysis.decimal_placeholders) > 0
       THEN integer_str \o <<".">> \o format_decimal(B64Fract(value), analysis.decimal_placeholders)
       ELSE integer_str

RECURSIVE B64Times(_, _, _)
\* x multiplied `count` times by k
B64Times(x, k, count) == IF count = 0 THEN x ELSE B64Times(B64Mul(x, k), k, count - 1)

RECURSIVE B64Over(_, _, _)
\* x divided `count` times by k
B64Over(x, k, count) == IF count = 0 THEN x ELSE B64Over(B64Div(x, k), k, count - 1)

\* format_number: the percent multiplication, the thousands scaling and the
\* rounding to the decimal places.
scale_and_round(value, analysis) ==
    LET percent == B64Times(B64Abs(value), 100, analysis.percent_count)
        adjusted_value == B64Over(percent, 1000, analysis.thousands_scale)
        multiplier == Pow(10, Len(analysis.decimal_placeholders))
    IN B64Div(B64(FALSE, B64RoundHalfUp(B64Mul(adjusted_value, multiplier)), 0), multiplier)

\* format_number on a section with numeric placeholders, for a value with a
\* fraction.
format_placeholders(value, analysis) ==
    build_result(analysis, format_with_placeholders(scale_and_round(value, analysis), analysis))

\* The f64 literal 1e-10
Tolerance == B64Recip(B64(FALSE, BigMul(BigMul(BigFromInt(Pow(10, 5)), Pow(10, 4)), 10), 0))

RECURSIVE Convergents(_, _, _, _, _), NextConvergent(_, _, _, _, _, _)
\* The loop of find_best_fraction: h and k hold the last two numerators and
\* denominators, n counts the rounds.  With a = floor(x), x - a is the
\* fraction of x.
Convergents(x, h, k, max_denom, n) ==
    IF n >= 20 \/ B64Less(B64Fract(x), Tolerance) THEN [num |-> h[1], denom |-> k[1]]
    ELSE NextConvergent(B64Recip(B64Fract(x)), B64Trunc(B64Recip(B64Fract(x))),
                        h, k, max_denom, n)

\* The rest of a round, from the new x and a = floor(x) on: k_next =
\* a * k[0] + k[1] is above max_denom exactly when a is above
\* (max_denom - k[1]) / k[0].
NextConvergent(x, a, h, k, max_denom, n) ==
    IF BigLess(BigFromInt((max_denom - k[2]) \div k[1]), a)
    THEN [num |-> h[1], denom |-> k[1]]
    ELSE Convergents(x, <<BigToInt(a) * h[1] + h[2], h[1]>>,
                     <<BigToInt(a) * k[1] + k[2], k[1]>>, max_denom, n + 1)

\* find_best_fraction on a value that is not negative
find_best_fraction(value, max_denom) ==
    IF value.m = <<>> \/ max_denom = 0 \/ B64Less(value, Tolerance) THEN [num |-> 0, denom |-> 1]
    ELSE LET best == Convergents(value, <<BigToInt(B64Trunc(value)), 1>>, <<1, 0>>, max_denom, 0)
             denom == IF max_denom < 10 THEN max_denom ELSE 10
         IN IF best.denom > max_denom
            THEN [num |-> BigToInt(B64RoundHalfUp(B64Mul(value, denom))), denom |-> denom]
            ELSE [num |-> IF best.num < 0 THEN 0 ELSE best.num,
                  denom |-> IF best.denom < 1 THEN 1 ELSE best.denom]

\* padding_width of format_fraction for FractionDenom::UpToDigits
padding_width(is_mixed, numerator_len, denom_digits) ==
    LET widest == IF is_mixed /\ numerator_len > denom_digits THEN numerator_len
                  ELSE denom_digits
    IN IF widest > 7 THEN 7 ELSE widest

Spaces(n) == [i \in 1..n |-> " "]

\* The text of format_fraction from the best fraction on.
FractionText(negative, whole, best, integer_digits, numerator_digits, width) ==
    LET is_mixed == integer_digits # <<>>
        carries == is_mixed /\ best.num >= best.denom /\ best.denom > 0
        integer_part == IF carries THEN whole + best.num \div best.denom ELSE whole
        num == IF carries THEN best.num % best.denom ELSE best.num
        sign == IF negative THEN <<"-">> ELSE <<>>
        integer_str ==
            IF ~is_mixed THEN <<>>
            ELSE (IF integer_part > 0 \/ num = 0
                  THEN format_simple_with_placeholders(integer_part, integer_digits)
                  ELSE Concat([i \in 1..Len(integer_digits) |-> empty_char(integer_digits[i])]))
                 \o <<" ">>
        num_str == Digits(num)
        denom_str == Digits(best.denom)
    IN IF is_mixed /\ num = 0 THEN sign \o integer_str \o Spaces(2 * width + 1)
       ELSE sign \o integer_str
            \o (IF is_mixed
                THEN Spaces(IF width > Len(num_str) THEN width - Len(num_str) ELSE 0) \o num_str
                ELSE format_simple_with_placeholders(num, numerator_digits))
            \o <<"/">> \o denom_str
            \o Spaces(IF width > Len(denom_str) THEN width - Len(denom_str) ELSE 0)

\* format_fraction for a denominator of up to denom_digits digits
format_fraction_up_to(value, integer_digits, numerator_digits, denom_digits) ==
    LET is_mixed == integer_digits # <<>>
        width == padding_width(is_mixed, Len(numerator_digits), denom_digits)
        max_denom == Pow(10, width) - 1
    IN FractionText(value.negative /\ value.m # <<>>, BigToInt(B64Trunc(B64Abs(value))),
                    IF is_mixed THEN find_best_fraction(B64Fract(B64Abs(value)), max_denom)
                    ELSE find_best_fraction(B64Abs(value), max_denom),
                    integer_digits, numerator_digits, width)

RECURSIVE RenderLiterals(_)
\* The literal loops of format_number for a section without digits.
RenderLiterals(parts) ==
    IF parts = <<>> THEN <<>>
    ELSE (CASE Head(parts).kind \in {"Literal", "EscapedLiteral"} -> Head(parts).arg
            [] Head(parts).kind = "Percent" -> <<"%">>
            [] Head(parts).kind = "Skip" -> <<" ">>
            [] OTHER -> <<>>)
         \o RenderLiterals(Tail(parts))

format_number(value, sec) ==
    LET scientific == {i \in 1..Len(sec.parts) : sec.parts[i].kind = "Scientific"}
        first == sec.parts[CHOOSE i \in scientific : \A j \in scientific : i <= j]
        has_fraction == \E p \in Range(sec.parts) : p.kind = "Fraction"
        has_numeric_parts == \E p \in Range(sec.parts) : p.kind \in {"Digit", "DecimalPoint"}
        has_general_number == \E p \in Range(sec.parts) : p.kind = "GeneralNumber"
        analysis == analyze_format(sec)
        rounded == Abs(FRound(value)) * Pow(100, analysis.percent_count)
        formatted == format_integer(rounded, analysis.integer_placeholders,
                                    analysis.has_thousands_separator,
                                    analysis.inline_literals)
    IN IF scientific # {}
       THEN format_scientific(value, sec, first.arg[1] = "E", first.arg[2] = "+")
       ELSE IF has_fraction THEN format_fraction(value, sec)
       ELSE IF has_text_placeholder(sec) /\ ~has_numeric_parts
       THEN [ok |-> TRUE, text |-> fallback_format(value)]
       ELSE IF ~has_numeric_parts
       THEN (IF has_general_number
             THEN [ok |-> TRUE, text |-> fallback_format(value) \o RenderLiterals(sec.parts)]
             ELSE [ok |-> TRUE, text |-> RenderLiterals(sec.parts)])
       ELSE [ok |-> TRUE, text |-> build_result(analysis, formatted)]

(***************************************************************************)
(* formatter/date.rs                                                       *)
(***************************************************************************)
\* The metadata of a section, as the parser fills it in.
SectionMetadata(sec) ==
    [has_ampm |-> \E p \in Range(sec.parts) : p.kind = "AmPm",
     has_subseconds |-> \E p \in Range(sec.parts) :
                            p.kind = "DatePart" /\ p.arg = <<"SubSecond">>]

\* True when the fractional part of the value is just below 1 (the value is
\* the f64 next below a whole number in magnitude); otherwise it is 0 or
\* just above 0.
FractNearOne(value) ==
    \/ (FGt(value, F(0)) /\ value[2] < 0)
    \/ (FLt(value, F(0)) /\ value[2] > 0)

\* date_serial.rs: serial_to_time_impl: <<hours, minutes, seconds>>.
serial_to_time_impl(serial, round_seconds) ==
    LET total_seconds == IF FractNearOne(serial)
                         THEN (IF round_seconds THEN 86400 ELSE 86399)
                         ELSE 0
    IN <<(total_seconds \div 3600) % 24, (total_seconds % 3600) \div 60, total_seconds % 60>>

\* date_serial.rs: serial_to_weekday, 1 = Sunday .. 7 = Saturday.
serial_to_weekday(serial, system) ==
    LET days == FFloor(serial)
    IN IF system = "Date1900" THEN ((((days - 1) % 7) + 7) % 7) + 1
       ELSE ((days + 5) % 7) + 1

month_names_short ==
    <<"Jan", "Feb", "Mar", "Apr", "May", "Jun", "Jul", "Aug", "Sep", "Oct", "Nov", "Dec">>
month_names_full ==
    <<"January", "February", "March", "April", "May", "June", "July", "August",
      "September", "October", "November", "December">>
day_names_short == <<"Sun", "Mon", "Tue", "Wed", "Thu", "Fri", "Sat">>
day_names_full ==
    <<"Sunday", "Monday", "Tuesday", "Wednesday", "Thursday", "Friday", "Saturday">>

to_12_hour(hour) == IF hour = 0 THEN 12 ELSE IF hour <= 12 THEN hour ELSE hour - 12

format_ampm(style, hour) ==
    CASE style \in {"Upper", "Lower"} -> IF hour >= 12 THEN Chars("PM") ELSE Chars("AM")
      [] style \in {"ShortUpper", "ShortLower"} -> IF hour >= 12 THEN <<"P">> ELSE <<"A">>
      [] style = "MalformedUpper" ->
            <<"A", IF to_12_hour(hour) = 12 THEN "1" ELSE "0", "/", "P">>
      [] style = "MalformedLower" ->
            <<"a", IF to_12_hour(hour) = 12 THEN "1" ELSE "0", "/", "p">>

\* The sub-second digits of a value of the model are all 0: its seconds are
\* whole to within the 1/10000 that format_date_part rounds to.
format_date_part(part, year, month, day, hour, minute, second, weekday, has_ampm) ==
    LET k == part.arg[1]
    IN CASE k = "Year2" -> Pad2(year % 100)
         [] k = "Year3" -> PadTo(year, 3)
         [] k = "Year4" -> PadTo(year, 4)
         [] k = "Month" -> Digits(month)
         [] k = "Month2" -> Pad2(month)
         [] k = "MonthAbbr" -> Chars(month_names_short[month])
         [] k = "MonthFull" -> Chars(month_names_full[month])
         [] k = "MonthLetter" -> <<Chars(month_names_full[month])[1]>>
         [] k = "Day" -> Digits(day)
         [] k = "Day2" -> Pad2(day)
         [] k = "DayAbbr" -> Chars(day_names_short[weekday])
         [] k = "DayFull" -> Chars(day_names_full[weekday])
         [] k = "Hour" -> Digits(IF has_ampm THEN to_12_hour(hour) ELSE hour)
         [] k = "Hour2" -> Pad2(IF has_ampm THEN to_12_hour(hour) ELSE hour)
         [] k = "Minute" -> Digits(minute)
         [] k = "Minute2" -> Pad2(minute)
         [] k = "Second" -> Digits(second)
         [] k = "Second2" -> Pad2(second)
         [] k = "SubSecond" -> [i \in 1..part.n |-> "0"]

\* The f64 `subseconds` of apply_time_prerounding lies in [0, 1); it is held
\* as a whole number of ten-thousandths, which are exact for the thresholds
\* 0.5, 0.95, 0.995 and 0.9995.
SubsecondUnits == Pow(10, 4)

NoPrecision == [some |-> FALSE, n |-> 0]
SomePrecision(n) == [some |-> TRUE, n |-> n]

Clock(hour, minute, second) == [hour |-> hour, minute |-> minute, second |-> second]

\* 1.0 - 0.5 * 10_f64.powi(-(precision as i32)), in ten-thousandths
SubsecondThreshold(precision) == SubsecondUnits - 5 * Pow(10, 3 - precision)

\* Every unit carries as far as the hour, as under TimeUnit::Hours.
apply_time_prerounding_CarryAll(hour, minute, second, subseconds, smallest_unit, subsecond_precision) ==
    LET sec == IF 2 * subseconds >= SubsecondUnits THEN second + 1 ELSE second
        min == IF sec >= 60 THEN minute + 1 ELSE minute
        hr == IF min >= 60 THEN hour + 1 ELSE hour
    IN Clock(IF hr >= 24 THEN hr % 24 ELSE hr,
             IF min >= 60 THEN 0 ELSE min,
             IF sec >= 60 THEN 0 ELSE sec)

apply_time_prerounding(hour, minute, second, subseconds, smallest_unit, subsecond_precision) ==
    LET up == IF 2 * subseconds >= SubsecondUnits THEN second + 1 ELSE second
    IN CASE smallest_unit = "Hours" ->
                LET sec == up
                    min == IF sec >= 60 THEN minute + 1 ELSE minute
                    hr == IF min >= 60 THEN hour + 1 ELSE hour
                IN Clock(IF hr >= 24 THEN hr % 24 ELSE hr,
                         IF min >= 60 THEN 0 ELSE min,
                         IF sec >= 60 THEN 0 ELSE sec)
         [] smallest_unit = "Minutes" ->
                LET sec == up
                    min == IF sec >= 60 THEN minute + 1 ELSE minute
                IN Clock(hour,
                         IF min >= 60 THEN min % 60 ELSE min,
                         IF sec >= 60 THEN 0 ELSE sec)
         [] smallest_unit = "Seconds" ->
                Clock(hour, minute, IF up >= 60 THEN up % 60 ELSE up)
         [] smallest_unit = "Subseconds" ->
                IF subsecond_precision.some
                   /\ subseconds >= SubsecondThreshold(subsecond_precision.n)
                THEN Clock(hour, minute,
                           IF second + 1 >= 60 THEN (second + 1) % 60 ELSE second + 1)
                ELSE Clock(hour, minute, second)
         [] smallest_unit = "None" -> Clock(hour, minute, second)

\* The serial of format_elapsed is held as its whole days (`date`), the
\* whole seconds of its fraction of the day (`floored`, what
\* (86400.0 * frac).floor() gives) and the rest of that fraction in
\* hundred-thousandths of a second (`sub`).
ElapsedUnits == Pow(10, 5)

ElapsedKinds == {"Hours", "Hours2", "Minutes", "Minutes2", "Seconds", "Seconds2"}

\* format!("{}", total) or, for the two-digit kinds, format!("{:02}", total)
ElapsedDigits(part, total) ==
    IF part \in {"Hours2", "Minutes2", "Seconds2"} THEN PadTo(total, 2) ELSE Digits(total)

\* The minutes take no carry from the rounded seconds.
ElapsedText_NoCarry(part, date, floored, sub) ==
    LET carry == 10000 * sub > 9999 * ElapsedUnits
        subseconds == IF carry THEN 0 ELSE sub
        wraps == carry /\ floored + 1 = 86400
        time_seconds == IF wraps THEN 0 ELSE IF carry THEN floored + 1 ELSE floored
        days == IF wraps THEN date + 1 ELSE date
        seconds == time_seconds % 60
        minutes == (time_seconds \div 60) % 60
        hours == time_seconds \div 3600
        rounded == IF 2 * subseconds >= ElapsedUnits THEN seconds + 1 ELSE seconds
    IN CASE part \in {"Hours", "Hours2"} -> ElapsedDigits(part, days * 24 + hours)
         [] part \in {"Minutes", "Minutes2"} ->
                ElapsedDigits(part, (days * 24 + hours) * 60 + minutes)
         [] part \in {"Seconds", "Seconds2"} ->
                ElapsedDigits(part, ((days * 24 + hours) * 60 + minutes) * 60 + rounded)

\* format_elapsed from the subsecond carry-over on.
ElapsedText(part, date, floored, sub) ==
    LET carry == 10000 * sub > 9999 * ElapsedUnits
        subseconds == IF carry THEN 0 ELSE sub
        wraps == carry /\ floored + 1 = 86400
        time_seconds == IF wraps THEN 0 ELSE IF carry THEN floored + 1 ELSE floored
        days == IF wraps THEN date + 1 ELSE date
        seconds == time_seconds % 60
        minutes == (time_seconds \div 60) % 60
        hours == time_seconds \div 3600
        rounded == IF 2 * subseconds >= ElapsedUnits THEN seconds + 1 ELSE seconds
        carried_minutes == IF rounded >= 60 THEN minutes + 1 ELSE minutes
        carried_hours == IF carried_minutes >= 60 THEN hours + 1 ELSE hours
    IN CASE part \in {"Hours", "Hours2"} -> ElapsedDigits(part, days * 24 + carried_hours)
         [] part \in {"Minutes", "Minutes2"} ->
                ElapsedDigits(part, (days * 24 + hours) * 60 + carried_minutes)
         [] part \in {"Seconds", "Seconds2"} ->
                ElapsedDigits(part, ((days * 24 + hours) * 60 + minutes) * 60 + rounded)

\* format_elapsed on a value of the model: a whole number or one of its f64
\* neighbours; just below a whole number the fraction of the day is within
\* 1/10000 second of a full day.
format_elapsed(part, serial_value) ==
    LET near_one == serial_value[2] < 0
    IN ElapsedText(part, FFloor(serial_value),
                   IF near_one THEN 86399 ELSE 0,
                   IF near_one THEN ElapsedUnits - 1 ELSE 0)

RECURSIVE RenderDateParts(_, _, _, _, _, _)
\* The loop of format_date over the parts of the section.
RenderDateParts(parts, ymd, hms, weekday, has_ampm, adjusted_value) ==
    IF parts = <<>> THEN <<>>
    ELSE LET part == Head(parts)
         IN (CASE part.kind = "DatePart" ->
                    format_date_part(part, ymd[1], ymd[2], ymd[3], hms[1], hms[2], hms[3],
                                     weekday, has_ampm)
               [] part.kind = "AmPm" -> format_ampm(part.arg[1], hms[1])
               [] part.kind = "Elapsed" -> format_elapsed(part.arg[1], adjusted_value)
               [] part.kind \in {"Literal", "EscapedLiteral", "Skip"} -> part.arg
               [] part.kind = "ThousandsSeparator" -> <<",">>
               [] part.kind = "DecimalPoint" -> <<".">>
               [] OTHER -> <<>>)
            \o RenderDateParts(Tail(parts), ymd, hms, weekday, has_ampm, adjusted_value)

\* Mutant: no range check on the serial.
format_date_NoRangeCheck(value, sec, date_system) ==
    LET metadata == SectionMetadata(sec)
        adjusted_value == F(FRound(value))
        ymd == IF FGe(value, F(1)) THEN serial_to_date(FFloor(value), date_system)
               ELSE <<1900, 1, 0>>
        hms == serial_to_time_impl(adjusted_value, ~metadata.has_subseconds)
        weekday == serial_to_weekday(value, date_system)
    IN [ok |-> TRUE,
        text |-> RenderDateParts(sec.parts, ymd, hms, weekday, metadata.has_ampm,
                                 adjusted_value)]

\* format_date.  Every value of the model lies within 1e-10 of a whole
\* number, so adjusted_value is value.round().
format_date(value, sec, date_system) ==
    IF FLt(value, F(0)) \/ FGt(value, F(MaxSerial))
    THEN [ok |-> TRUE, text |-> <<>>]
    ELSE LET metadata == SectionMetadata(sec)
             adjusted_value == F(FRound(value))
             ymd == IF FGe(value, F(1)) THEN serial_to_date(FFloor(value), date_system)
                    ELSE <<1900, 1, 0>>
             hms == serial_to_time_impl(adjusted_value, ~metadata.has_subseconds)
             weekday == serial_to_weekday(value, date_system)
         IN [ok |-> TRUE,
             text |-> RenderDateParts(sec.parts, ymd, hms, weekday, metadata.has_ampm,
                                      adjusted_value)]

(***************************************************************************)
(* formatter/mod.rs: NumberFormat::try_format and NumberFormat::format.    *)
(* The result records the section selected, the value handed to the        *)
(* section's formatter, the path taken and whether line 102 inserted '-'.  *)
(***************************************************************************)
NoResult ==
    [path |-> "none", ok |-> FALSE, text |-> <<>>, section |-> 0,
     use_abs_value |-> FALSE, format_value |-> F(0), need_minus_sign |-> FALSE]

is_single_char_literal(sec) ==
    /\ Len(sec.parts) = 1
    /\ sec.parts[1].kind = "Literal"
    /\ ByteLen(sec.parts[1].arg) = 1

\* try_format from the selection of the section on (lines 44-106).
FormatSelected(sections, value, date_system) ==
    LET idx == select_section(sections, value)
        section == sections[idx]
        has_conditions == \E i \in 1..Len(sections) : sections[i].condition # NoCondition
        use_abs_value == /\ has_conditions
                         /\ section.condition # NoCondition
                         /\ is_strict_match(section.condition, value)
        format_value == IF use_abs_value THEN FAbs(value) ELSE value
        truncated_value == IF use_abs_value /\ FFractNonZero(format_value)
                           THEN FTrunc(format_value) ELSE format_value
        num_sections == Len(sections)
        has_numeric_parts == \E p \in Range(section.parts) : is_numeric_part(p)
        has_fraction == \E p \in Range(section.parts) : p.kind = "Fraction"
        has_scientific == \E p \in Range(section.parts) : p.kind = "Scientific"
        need_minus_sign == /\ num_sections = 1
                           /\ FLt(value, F(0))
                           /\ (has_numeric_parts \/ is_single_char_literal(section))
                           /\ ~use_abs_value
                           /\ ~has_fraction
                           /\ ~has_scientific
        base == [NoResult EXCEPT !.section = idx, !.use_abs_value = use_abs_value,
                                 !.format_value = format_value]
        dated == format_date(format_value, section, date_system)
        number == format_number(format_value, section)
    IN IF section.parts = <<>>
       THEN [base EXCEPT !.path = "general", !.ok = TRUE,
                         !.text = fallback_format(truncated_value)]
       ELSE IF has_date_parts(section)
       THEN [base EXCEPT !.path = "date", !.ok = dated.ok, !.text = dated.text]
       ELSE IF ~number.ok
       THEN [base EXCEPT !.path = "number", !.ok = FALSE]
       ELSE [base EXCEPT !.path = "number", !.ok = TRUE,
                         !.need_minus_sign = need_minus_sign,
                         !.text = IF need_minus_sign THEN <<"-">> \o number.text
                                  ELSE number.text]

\* Mutant: the special float values are formatted like numbers.
try_format_NoSpecialValues(sections, value, date_system) ==
    FormatSelected(sections, value, date_system)

\* NumberFormat::try_format
try_format(sections, value, date_system) ==
    IF is_nan(value)
    THEN [NoResult EXCEPT !.path = "special", !.ok = TRUE, !.text = Chars("NaN")]
    ELSE IF is_infinite(value)
    THEN [NoResult EXCEPT !.path = "special", !.ok = TRUE,
                          !.text = IF is_sign_positive(value) THEN Chars("Infinity")
                                   ELSE Chars("-Infinity")]
    ELSE FormatSelected(sections, value, date_system)

\* NumberFormat::format
format(sections, value, date_system) ==
    LET r == try_format(sections, value, date_system)
    IN IF r.ok THEN r.text ELSE fallback_format(value)

\* One iteration of the loop of format_text: result.push_str(..)
push_text_part(result, part, text) ==
    CASE part.kind = "TextPlaceholder" -> result \o text
      [] part.kind \in {"Literal", "EscapedLiteral"} -> result \o part.arg
      [] OTHER -> result

RECURSIVE TextLoop(_, _, _)
\* The loop of format_text over the parts of the text section.
TextLoop(parts, text, result) ==
    IF parts = <<>> THEN result
    ELSE TextLoop(Tail(parts), text, push_text_part(result, Head(parts), text))

\* Mutant: the text section taken to be the third.
format_text_ThirdSection(sections, text) ==
    IF Len(sections) >= 3 THEN TextLoop(sections[3].parts, text, <<>>) ELSE text

\* NumberFormat::format_text
format_text(sections, text) ==
    IF Len(sections) >= 4 THEN TextLoop(sections[4].parts, text, <<>>) ELSE text

(***************************************************************************)
(* Helpers of str.                                                         *)
(***************************************************************************)
UpperLetters == Chars("ABCDEFGHIJKLMNOPQRSTUVWXYZ")
LowerLetters == Chars("abcdefghijklmnopqrstuvwxyz")
DigitChars == Chars("0123456789")

to_lowercase_char(ch) ==
    IF \E i \in 1..26 : UpperLetters[i] = ch
    THEN LowerLetters[CHOOSE i \in 1..26 : UpperLetters[i] = ch]
    ELSE ch

to_lowercase(str) == [i \in 1..Len(str) |-> to_lowercase_char(str[i])]

is_uppercase(ch) == \E i \in 1..26 : UpperLetters[i] = ch

eq_ignore_ascii_case(a, b) == to_lowercase(a) = to_lowercase(b)

RECURSIVE trim_start(_)
trim_start(str) == IF str # <<>> /\ Head(str) = " " THEN trim_start(Tail(str)) ELSE str

RECURSIVE trim_end(_)
trim_end(str) ==
    IF str # <<>> /\ str[Len(str)] = " " THEN trim_end(SubSeq(str, 1, Len(str) - 1)) ELSE str

trim(str) == trim_end(trim_start(str))

\* str.find(ch) from the character index `from` on: the index of the first
\* occurrence, 0 when there is none.
find(str, ch, from) ==
    LET at == {j \in from..Len(str) : str[j] = ch}
    IN IF at = {} THEN 0 ELSE Least(at)

starts_with(str, prefix) ==
    Len(str) >= Len(prefix) /\ SubSeq(str, 1, Len(prefix)) = prefix

\* The byte offset of the character with index i.
Offset(str, i) == ByteLen(SubSeq(str, 1, i - 1))

\* The number of characters from index i on that lie in `letters`.
RunLength(str, i, letters) ==
    LET stop == {j \in i..Len(str) : str[j] \notin letters}
    IN IF stop = {} THEN Len(str) - i + 1 ELSE Least(stop) - i

DigitValue(ch) == (CHOOSE i \in 1..10 : DigitChars[i] = ch) - 1

RECURSIVE DecimalValue(_, _)
DecimalValue(str, acc) ==
    IF str = <<>> THEN acc ELSE DecimalValue(Tail(str), 10 * acc + DigitValue(Head(str)))

\* str::parse for an unsigned integer type: an optional '+', then digits.
\* -1 stands for Err.  Texts of more than 9 digits are outside the model.
parse_unsigned(str, max) ==
    LET body == IF str # <<>> /\ Head(str) = "+" THEN Tail(str) ELSE str
    IN IF body = <<>> \/ \E i \in 1..Len(body) : body[i] \notin Range(DigitChars) THEN -1
       ELSE CASE Len(body) <= 9 ->
                    IF DecimalValue(body, 0) > max THEN -1 ELSE DecimalValue(body, 0)

NoNumber == <<0, 2>>

\* str::parse::<f64> for the texts the model's values can be written as: an
\* optional sign, then digits.  NoNumber stands for Err.
parse_f64(str) ==
    LET negative == str # <<>> /\ Head(str) = "-"
        body == IF str # <<>> /\ Head(str) \in {"+", "-"} THEN Tail(str) ELSE str
    IN IF body = <<>> \/ \E i \in 1..Len(body) : body[i] \notin Range(DigitChars) THEN NoNumber
       ELSE CASE Len(body) <= 9 ->
                    F(IF negative THEN -DecimalValue(body, 0) ELSE DecimalValue(body, 0))

RECURSIVE Str(_)
\* The TLA+ string with the given characters.
Str(chars) == IF chars = <<>> THEN "" ELSE Head(chars) \o Str(Tail(chars))

(***************************************************************************)
(* parser/lexer.rs.  Token offsets are byte offsets into the input; the    *)
(* position of the generated lexer is kept as the index of its next        *)
(* character.                                                              *)
(***************************************************************************)
Token(kind, text, start, end) == [kind |-> kind, text |-> text, start |-> start, end |-> end]

NoRun == [kind |-> "none", remaining |-> 0, at |-> 0]

NoError == [kind |-> "none", position |-> 0]

\* What the generated lexer does when a pattern read past the first
\* character and then failed (an opening quote or bracket that is never
\* closed): it either falls back to the one-character token or reports an
\* error.  Which of the two depends on the release of the lexer generator
\* the crate is built with; the lexer settles on one the first time the
\* case arises.
LexerModes == {"fallback", "error"}

\* Lexer::new
Lexer_new(input) ==
    [input |-> input, pos |-> 1, buffer |-> <<>>, buffer_pos |-> 0,
     pending_run |-> NoRun, mode |-> "unknown"]

\* The tokens of one character.
SingleTokens ==
    [ch \in {"0", "#", "?", ".", ",", ";", "%", "@", "*", "_", "E", "e", "+", "-", "/"} |->
        CASE ch = "0" -> "Zero" [] ch = "#" -> "Hash" [] ch = "?" -> "Question"
          [] ch = "." -> "DecimalPoint" [] ch = "," -> "ThousandsSep"
          [] ch = ";" -> "SectionSep" [] ch = "%" -> "Percent" [] ch = "@" -> "At"
          [] ch = "*" -> "Asterisk" [] ch = "_" -> "Underscore"
          [] ch = "E" -> "ExponentUpper" [] ch = "e" -> "ExponentLower"
          [] ch = "+" -> "Plus" [] ch = "-" -> "Minus" [] ch = "/" -> "Slash"]

\* The letter runs.
RunTokens ==
    [ch \in {"y", "m", "d", "h", "s"} |->
        CASE ch = "y" -> "Year" [] ch = "m" -> "Month" [] ch = "d" -> "Day"
          [] ch = "h" -> "Hour" [] ch = "s" -> "Second"]

\* RawToken: the longest match at the character index i, the highest
\* priority among the longest.  "RanOff" is a pattern that read past the
\* first character and then failed.
RawToken(input, i) ==
    LET c == input[i]
        lc == to_lowercase_char(c)
        close_bracket == find(input, "]", i + 1)
        close_quote == find(input, "\"", i + 1)
        Keyword(word) ==
            /\ i + Len(word) - 1 <= Len(input)
            /\ to_lowercase(SubSeq(input, i, i + Len(word) - 1)) = word
        NextIs(chars) == i < Len(input) /\ to_lowercase_char(input[i + 1]) \in chars
    IN CASE c = "[" /\ close_bracket # 0 ->
                [raw |-> "BracketContent", len |-> close_bracket - i + 1]
         [] c = "[" /\ close_bracket = 0 /\ i < Len(input) -> [raw |-> "RanOff", len |-> 1]
         [] c = "\"" /\ close_quote # 0 ->
                [raw |-> "QuotedString", len |-> close_quote - i + 1]
         [] c = "\"" /\ close_quote = 0 /\ i < Len(input) -> [raw |-> "RanOff", len |-> 1]
         [] c = "\\" /\ i < Len(input) -> [raw |-> "Escaped", len |-> 2]
         [] lc = "g" /\ Keyword(Chars("general")) -> [raw |-> "General", len |-> 7]
         [] lc = "g" /\ ~Keyword(Chars("general")) /\ NextIs({"e"}) ->
                [raw |-> "RanOff", len |-> 1]
         [] lc = "a" /\ Keyword(Chars("am/pm")) -> [raw |-> "AmPmFull", len |-> 5]
         [] lc = "a" /\ ~Keyword(Chars("am/pm")) /\ Keyword(Chars("a/p")) ->
                [raw |-> "AmPmShort", len |-> 3]
         [] lc = "a" /\ ~Keyword(Chars("am/pm")) /\ ~Keyword(Chars("a/p"))
                     /\ NextIs({"m", "/"}) ->
                [raw |-> "RanOff", len |-> 1]
         [] lc \in DOMAIN RunTokens ->
                [raw |-> "Run", len |-> RunLength(input, i, {c2 \in {"y", "Y", "m", "M", "d", "D",
                                                                      "h", "H", "s", "S"} :
                                                                 to_lowercase_char(c2) = lc})]
         [] c \in DOMAIN SingleTokens -> [raw |-> "Single", len |-> 1]
         [] lc # "b" /\ c \notin DOMAIN SingleTokens /\ lc \notin DOMAIN RunTokens
                /\ ~(c = "[" /\ i < Len(input)) /\ ~(c = "\"" /\ i < Len(input))
                /\ ~(c = "\\" /\ i < Len(input))
                /\ ~(lc = "g" /\ NextIs({"e"})) /\ ~(lc = "a" /\ NextIs({"m", "/"})) ->
                [raw |-> "Other", len |-> 1]

\* Lexer::expand_bracket_content: the tokens of the bracket of `len`
\* characters that starts at the character index i.
expand_bracket_content(input, i, len) ==
    LET start == Offset(input, i)
        end == Offset(input, i + len)
        InBracket(j) ==
            LET ch == input[j]
            IN Token(IF ch \in {"0", "#", "?", ".", ",", "%", "@", "*", "_", "+", "-", "/"}
                     THEN SingleTokens[ch] ELSE "Literal",
                     IF ch \in {"0", "#", "?", ".", ",", "%", "@", "*", "_", "+", "-", "/"}
                     THEN <<>> ELSE <<ch>>,
                     Offset(input, j), Offset(input, j) + Utf8Len(ch))
    IN <<Token("OpenBracket", <<>>, start, start + 1)>>
       \o [j \in 1..(len - 2) |-> InBracket(i + j)]
       \o <<Token("CloseBracket", <<>>, end - 1, end)>>

\* Lexer::convert_raw_token on the match m at the lexer's position.
convert_raw_token(lx, m) ==
    LET input == lx.input
        i == lx.pos
        start == Offset(input, i)
        end == Offset(input, i + m.len)
        moved == [lx EXCEPT !.pos = i + m.len]
        One(tok) == [lexer |-> moved, token |-> tok, error |-> NoError]
        expanded == expand_bracket_content(input, i, m.len)
    IN CASE m.raw = "BracketContent" ->
                [lexer |-> [moved EXCEPT !.buffer = expanded, !.buffer_pos = 1],
                 token |-> expanded[1], error |-> NoError]
         [] m.raw = "QuotedString" ->
                One(Token("QuotedString", SubSeq(input, i + 1, i + m.len - 2), start, end))
         [] m.raw = "Escaped" -> One(Token("EscapedChar", <<input[i + 1]>>, start, end))
         [] m.raw = "General" -> One(Token("General", <<>>, start, end))
         [] m.raw \in {"AmPmFull", "AmPmShort"} ->
                One(Token("AmPm", SubSeq(input, i, i + m.len - 1), start, end))
         [] m.raw = "Run" ->
                [lexer |-> [moved EXCEPT !.pending_run =
                                IF m.len > 1
                                THEN [kind |-> RunTokens[to_lowercase_char(input[i])],
                                      remaining |-> m.len - 1, at |-> start + 1]
                                ELSE NoRun],
                 token |-> Token(RunTokens[to_lowercase_char(input[i])], <<>>, start, start + 1),
                 error |-> NoError]
         [] m.raw = "Single" -> One(Token(SingleTokens[input[i]], <<>>, start, end))
         [] m.raw = "Other" -> One(Token("Literal", <<input[i]>>, start, end))

\* The pending run does not move on: every later token of a run has the
\* span of the second.
next_token_RunInPlace(lx, choice) ==
    LET run == lx.pending_run
        cleared == [lx EXCEPT !.buffer = <<>>, !.buffer_pos = 0]
        eof == Token("Eof", <<>>, ByteLen(lx.input), ByteLen(lx.input))
        m == RawToken(lx.input, lx.pos)
        mode == IF lx.mode = "unknown" THEN choice ELSE lx.mode
        settled == [cleared EXCEPT !.mode = mode]
    IN IF run # NoRun
       THEN [lexer |-> [lx EXCEPT !.pending_run =
                            IF run.remaining > 1
                            THEN [kind |-> run.kind, remaining |-> run.remaining - 1,
                                  at |-> run.at]
                            ELSE NoRun],
             token |-> Token(run.kind, <<>>, run.at, run.at + 1),
             error |-> NoError]
       ELSE IF lx.buffer_pos < Len(lx.buffer)
       THEN [lexer |-> [lx EXCEPT !.buffer_pos = @ + 1],
             token |-> lx.buffer[lx.buffer_pos + 1],
             error |-> NoError]
       ELSE IF lx.pos > Len(lx.input)
       THEN [lexer |-> cleared, token |-> eof, error |-> NoError]
       ELSE IF m.raw = "RanOff"
       THEN (IF mode = "fallback"
             THEN convert_raw_token(settled, [raw |-> "Other", len |-> 1])
             ELSE [lexer |-> settled, token |-> eof,
                   error |-> [kind |-> "UnexpectedToken",
                              position |-> Offset(lx.input, lx.pos)]])
       ELSE convert_raw_token(cleared, m)

\* Lexer::next_token.  `choice` is the mode the generated lexer turns out
\* to have if this call is the first to meet a pattern that ran off.
next_token(lx, choice) ==
    LET run == lx.pending_run
        cleared == [lx EXCEPT !.buffer = <<>>, !.buffer_pos = 0]
        eof == Token("Eof", <<>>, ByteLen(lx.input), ByteLen(lx.input))
        m == RawToken(lx.input, lx.pos)
        mode == IF lx.mode = "unknown" THEN choice ELSE lx.mode
        settled == [cleared EXCEPT !.mode = mode]
    IN IF run # NoRun
       THEN [lexer |-> [lx EXCEPT !.pending_run =
                            IF run.remaining > 1
                            THEN [kind |-> run.kind, remaining |-> run.remaining - 1,
                                  at |-> run.at + 1]
                            ELSE NoRun],
             token |-> Token(run.kind, <<>>, run.at, run.at + 1),
             error |-> NoError]
       ELSE IF lx.buffer_pos < Len(lx.buffer)
       THEN [lexer |-> [lx EXCEPT !.buffer_pos = @ + 1],
             token |-> lx.buffer[lx.buffer_pos + 1],
             error |-> NoError]
       ELSE IF lx.pos > Len(lx.input)
       THEN [lexer |-> cleared, token |-> eof, error |-> NoError]
       ELSE IF m.raw = "RanOff"
       THEN (IF mode = "fallback"
             THEN convert_raw_token(settled, [raw |-> "Other", len |-> 1])
             ELSE [lexer |-> settled, token |-> eof,
                   error |-> [kind |-> "UnexpectedToken",
                              position |-> Offset(lx.input, lx.pos)]])
       ELSE convert_raw_token(cleared, m)

(***************************************************************************)
(* parser/mod.rs.  A Parser is a record; once an operation has failed, the *)
(* `?` of the code returns at once, so every later operation leaves the    *)
(* record alone.                                                           *)
(***************************************************************************)
SectionBuilder_new == [condition |-> NoCondition, color |-> NoColor, parts |-> <<>>]

Failed(p) == p.error # NoError

\* Parser::advance
advance(p, choice) ==
    IF Failed(p) THEN p
    ELSE LET r == next_token(p.lexer, choice)
         IN IF r.error # NoError
            THEN [p EXCEPT !.lexer = r.lexer, !.error = r.error]
            ELSE [p EXCEPT !.lexer = r.lexer, !.current = r.token]

\* SectionBuilder::add_part
add_part(p, part) == IF Failed(p) THEN p ELSE [p EXCEPT !.builder.parts = Append(@, part)]

RECURSIVE count_consecutive(_, _, _)
\* Parser::count_consecutive
count_consecutive(p, kind, choice) ==
    IF Failed(p) \/ p.current.kind # kind THEN [parser |-> p, count |-> 0]
    ELSE LET r == count_consecutive(advance(p, choice), kind, choice)
         IN [parser |-> r.parser, count |-> r.count + 1]

NoChar == "(no char)"

\* Parser::get_literal_char, on a token
get_literal_char(t) ==
    CASE t.kind \in {"Literal", "EscapedChar"} -> t.text[1]
      [] t.kind = "Zero" -> "0" [] t.kind = "Hash" -> "#" [] t.kind = "Question" -> "?"
      [] t.kind = "DecimalPoint" -> "." [] t.kind = "ThousandsSep" -> ","
      [] t.kind = "Percent" -> "%" [] t.kind = "At" -> "@" [] t.kind = "Asterisk" -> "*"
      [] t.kind = "Underscore" -> "_" [] t.kind = "Plus" -> "+" [] t.kind = "Minus" -> "-"
      [] t.kind = "Slash" -> "/"
      [] OTHER -> NoChar

\* parse_am_pm_style
parse_am_pm_style(s) ==
    CASE s = Chars("AM/PM") -> "Upper"
      [] s = Chars("am/pm") -> "Lower"
      [] s = Chars("A/P") -> "ShortUpper"
      [] s = Chars("a/p") -> "ShortLower"
      [] OTHER -> IF ByteLen(s) <= 3
                  THEN (IF is_uppercase(s[1]) THEN "ShortUpper" ELSE "ShortLower")
                  ELSE (IF is_uppercase(s[1]) THEN "Upper" ELSE "Lower")

NamedColors ==
    <<"Black", "Blue", "Cyan", "Green", "Magenta", "Red", "White", "Yellow">>

\* try_parse_color.  A colour is written as the name of its variant, an
\* indexed colour as "Color" followed by its index.
try_parse_color(content) ==
    LET lower == to_lowercase(content)
        named == {i \in 1..Len(NamedColors) : to_lowercase(Chars(NamedColors[i])) = lower}
        index == parse_unsigned(SubSeq(content, 6, Len(content)), 255)
    IN IF named # {} THEN NamedColors[CHOOSE i \in named : TRUE]
       ELSE IF starts_with(lower, Chars("color")) /\ index >= 1 /\ index <= 56
       THEN "Color" \o Str(Digits(index))
       ELSE NoColor

\* try_parse_condition: the value after the operator.
ConditionOf(op, number) == IF number = NoNumber THEN NoCondition ELSE Cond(op, number)

ConditionAfter(text, op, n) == ConditionOf(op, parse_f64(trim(SubSeq(text, n + 1, Len(text)))))

\* try_parse_condition: the operator the trimmed text starts with.
ConditionIn(text) ==
    IF starts_with(text, Chars(">=")) THEN ConditionAfter(text, "GreaterOrEqual", 2)
    ELSE IF starts_with(text, Chars("<=")) THEN ConditionAfter(text, "LessOrEqual", 2)
    ELSE IF starts_with(text, Chars("<>")) THEN ConditionAfter(text, "NotEqual", 2)
    ELSE IF starts_with(text, <<">">>) THEN ConditionAfter(text, "GreaterThan", 1)
    ELSE IF starts_with(text, <<"<">>) THEN ConditionAfter(text, "LessThan", 1)
    ELSE IF starts_with(text, <<"=">>) THEN ConditionAfter(text, "Equal", 1)
    ELSE NoCondition

\* try_parse_condition
try_parse_condition(content) == ConditionIn(trim(content))

\* try_parse_elapsed
try_parse_elapsed(content) ==
    LET lower == to_lowercase(content)
    IN CASE lower \in {Chars("h"), Chars("hh")} -> "Hours"
         [] lower \in {Chars("m"), Chars("mm")} -> "Minutes"
         [] lower \in {Chars("s"), Chars("ss")} -> "Seconds"
         [] OTHER -> None

NoLocale == Part("none", <<>>, 0)

\* try_parse_locale.  The part holds the currency text; the model keeps the
\* text after the dash out of the part (no format of the model has a locale
\* bracket).
try_parse_locale(content) ==
    IF ~starts_with(content, <<"$">>) THEN NoLocale
    ELSE LET rest == Tail(content)
             dash_pos == find(rest, "-", 1)
         IN IF dash_pos # 0 THEN Part("Locale", SubSeq(rest, 1, dash_pos - 1), 0)
            ELSE Part("Locale", rest, 0)

\* The characters parse_bracket_content keeps of the tokens in a bracket.
BracketChar(t) ==
    CASE t.kind = "Literal" -> <<t.text[1]>>
      [] t.kind \in {"Zero", "Hash", "Question", "DecimalPoint", "ThousandsSep", "Percent",
                     "At", "Asterisk", "Underscore", "Plus", "Minus", "Slash"} ->
            <<get_literal_char(t)>>
      [] t.kind = "ExponentUpper" -> <<"E">>
      [] t.kind = "ExponentLower" -> <<"e">>
      [] OTHER -> <<>>

RECURSIVE CollectBracket(_, _, _, _)
\* The loop of parse_bracket_content.
CollectBracket(p, content, bracket_start, choice) ==
    IF Failed(p) THEN [parser |-> p, content |-> content]
    ELSE CASE p.current.kind = "CloseBracket" ->
                [parser |-> advance(p, choice), content |-> content]
           [] p.current.kind = "Eof" ->
                [parser |-> [p EXCEPT !.error = [kind |-> "UnterminatedBracket",
                                                 position |-> bracket_start]],
                 content |-> content]
           [] OTHER ->
                CollectBracket(advance(p, choice), content \o BracketChar(p.current),
                               bracket_start, choice)

\* parse_bracket_content after its loop: the first reading of the content
\* that succeeds is applied, an unknown bracket is ignored.
BracketMeaning(q, color, condition, elapsed, locale) ==
    IF Failed(q) THEN q
    ELSE IF color # NoColor THEN [q EXCEPT !.builder.color = color]
    ELSE IF condition # NoCondition THEN [q EXCEPT !.builder.condition = condition]
    ELSE IF elapsed # None THEN add_part(q, Elapsed(elapsed))
    ELSE IF locale # NoLocale THEN add_part(q, locale)
    ELSE q

BracketContent(q, content) ==
    BracketMeaning(q, try_parse_color(content), try_parse_condition(content),
                   try_parse_elapsed(content), try_parse_locale(content))

BracketCollected(r) == BracketContent(r.parser, trim(r.content))

\* Parser::parse_bracket_content
parse_bracket_content(p, bracket_start, choice) ==
    BracketCollected(CollectBracket(p, <<>>, bracket_start, choice))

\* The `.0`, `.00`, ... after an hour or a second run.
SubSecondPlaces(p, choice) ==
    IF Failed(p) \/ p.current.kind # "DecimalPoint" THEN p
    ELSE LET r == count_consecutive(advance(p, choice), "Zero", choice)
         IN IF r.count > 0
            THEN add_part(add_part(r.parser, Literal(<<".">>)), SubSecond(r.count % 256))
            ELSE r.parser

\* The tokens of parse_section that add one part and advance.
SimpleKinds ==
    {"Zero", "Hash", "Question", "DecimalPoint", "ThousandsSep", "Percent", "At", "Plus",
     "Minus", "Slash", "AmPm", "Literal", "EscapedChar", "QuotedString", "CloseBracket"}

\* The part parse_section adds for a token of SimpleKinds.
TokenPart(t) ==
    CASE t.kind = "Zero" -> Digit("Zero")
      [] t.kind = "Hash" -> Digit("Hash")
      [] t.kind = "Question" -> Digit("Question")
      [] t.kind = "DecimalPoint" -> Bare("DecimalPoint")
      [] t.kind = "ThousandsSep" -> Bare("ThousandsSeparator")
      [] t.kind = "Percent" -> Bare("Percent")
      [] t.kind = "At" -> Bare("TextPlaceholder")
      [] t.kind = "Plus" -> Literal(<<"+">>)
      [] t.kind = "Minus" -> Literal(<<"-">>)
      [] t.kind = "Slash" -> Literal(<<"/">>)
      [] t.kind = "AmPm" -> AmPm(parse_am_pm_style(t.text))
      [] t.kind = "Literal" -> Literal(t.text)
      [] t.kind = "EscapedChar" -> EscapedLiteral(t.text)
      [] t.kind = "QuotedString" -> Literal(t.text)
      [] t.kind = "CloseBracket" -> Literal(<<"]">>)

RunKinds == {"Year", "Month", "Day", "Hour", "Second"}

\* The date part parse_section makes of a run of `count` letters; seen_hour
\* is the flag as it was when the run began.
RunPart(kind, count, seen_hour) ==
    CASE kind = "Year" -> IF count >= 4 THEN "Year4" ELSE "Year2"
      [] kind = "Month" ->
            IF seen_hour
            THEN (IF count >= 2 THEN "Minute2" ELSE "Minute")
            ELSE CASE count = 1 -> "Month"
                   [] count = 2 -> "Month2"
                   [] count = 3 -> "MonthAbbr"
                   [] count = 4 -> "MonthFull"
                   [] OTHER -> "MonthLetter"
      [] kind = "Day" ->
            CASE count = 1 -> "Day"
              [] count = 2 -> "Day2"
              [] count = 3 -> "DayAbbr"
              [] OTHER -> "DayFull"
      [] kind = "Hour" -> IF count >= 2 THEN "Hour2" ELSE "Hour"
      [] kind = "Second" -> IF count >= 2 THEN "Second2" ELSE "Second"

\* The arms of parse_section for the letter runs, after count_consecutive
\* has returned r.
RunCounted(kind, r, seen_hour, choice) ==
    IF kind \in {"Hour", "Second"}
    THEN SubSecondPlaces(add_part(r.parser, DatePart(RunPart(kind, r.count, seen_hour))), choice)
    ELSE add_part(r.parser, DatePart(RunPart(kind, r.count, seen_hour)))

\* The arms of parse_section for `*` and `_`, after the advance to `next`:
\* ch is the character that follows.
FillOrSkip(kind, next, ch, choice) ==
    IF ~Failed(next) /\ ch # NoChar
    THEN advance(add_part(next, IF kind = "Asterisk" THEN Fill(ch) ELSE Skip(ch)), choice)
    ELSE next

\* The arms of parse_section that advance past the token t before they
\* look at what follows.
AfterToken(t, next, choice) ==
    CASE t.kind = "General" ->
            IF next.current.kind \in {"Eof", "SectionSep"} THEN next
            ELSE add_part(next, Bare("GeneralNumber"))
      [] t.kind = "OpenBracket" -> parse_bracket_content(next, t.start, choice)
      [] t.kind \in {"Asterisk", "Underscore"} ->
            FillOrSkip(t.kind, next, get_literal_char(next.current), choice)
      [] t.kind \in {"ExponentUpper", "ExponentLower"} ->
            IF Failed(next) THEN next
            ELSE IF next.current.kind \in {"Plus", "Minus"}
            THEN add_part(advance(next, choice),
                          Scientific(t.kind = "ExponentUpper", next.current.kind = "Plus"))
            ELSE add_part(next, Literal(IF t.kind = "ExponentLower" THEN <<"e">> ELSE <<"E">>))

\* One iteration of the loop of Parser::parse_section, on a token that is
\* neither Eof nor SectionSep.  An hour run sets seen_hour before it is
\* counted.
parse_section_token(p, choice) ==
    CASE p.current.kind \in SimpleKinds ->
            advance(add_part(p, TokenPart(p.current)), choice)
      [] p.current.kind \in RunKinds ->
            RunCounted(p.current.kind,
                       count_consecutive([p EXCEPT !.seen_hour = @ \/ p.current.kind = "Hour"],
                                         p.current.kind, choice),
                       p.seen_hour, choice)
      [] p.current.kind \in {"General", "OpenBracket", "Asterisk", "Underscore",
                             "ExponentUpper", "ExponentLower"} ->
            AfterToken(p.current, advance(p, choice), choice)

\* SectionBuilder::build.  detect_fractions rewrites the parts only around
\* a literal "/", detect_subseconds only at a DecimalPoint part; the
\* formats of the model hold neither.
build(builder) ==
    CASE \A part \in Range(builder.parts) :
            /\ part.kind # "DecimalPoint"
            /\ ~(part.kind \in {"Literal", "EscapedLiteral"} /\ part.arg = <<"/">>) ->
        Section(builder.condition, builder.color, builder.parts)

\* The entry of Parser::parse_section: a new builder, seen_hour cleared.
\* `from` remembers where the section starts.
parse_section_entry_KeepsSeenHour(p) ==
    IF Failed(p) THEN p
    ELSE [p EXCEPT !.builder = SectionBuilder_new, !.from = p.current.start]

parse_section_entry(p) ==
    IF Failed(p) THEN p
    ELSE [p EXCEPT !.builder = SectionBuilder_new, !.seen_hour = FALSE,
                   !.from = p.current.start]

\* The exit of Parser::parse_section and the rest of the iteration of the
\* loop of Parser::parse: the section is built and pushed; at Eof the loop
\* ends, at a SectionSep the parser advances and enters the next section.
parse_section_exit(p, choice) ==
    LET pushed == [p EXCEPT !.sections = Append(@, build(p.builder)),
                            !.spans = Append(@, <<p.from, p.current.start>>)]
    IN IF p.current.kind = "Eof" THEN [pushed EXCEPT !.phase = "done"]
       ELSE parse_section_entry(advance(pushed, choice))

\* Parser::new, and Parser::parse up to the entry of the first section.
Parser_new(format_code, choice) ==
    LET first == next_token(Lexer_new(format_code), choice)
    IN parse_section_entry(
           [phase |-> "section",
            lexer |-> first.lexer,
            current |-> IF first.error # NoError THEN Token("Eof", <<>>, 0, 0)
                        ELSE first.token,
            seen_hour |-> FALSE,
            builder |-> SectionBuilder_new,
            sections |-> <<>>,
            error |-> NoError,
            from |-> 0,
            spans |-> <<>>])

IdleParser ==
    [phase |-> "idle", lexer |-> Lexer_new(<<>>), current |-> Token("Eof", <<>>, 0, 0),
     seen_hour |-> FALSE, builder |-> SectionBuilder_new, sections |-> <<>>,
     error |-> NoError, from |-> 0, spans |-> <<>>]

\* The `general_check` of parse: "none" when the code is not General,
\* "panic" when a slice of the code is out of order or off a character
\* boundary, otherwise the section to return.
general_check(format_code) ==
    LET bracket_end == find(format_code, "]", 1)
        after_bracket == SubSeq(format_code, bracket_end + 1, Len(format_code))
        bracket_content == SubSeq(format_code, 2, bracket_end - 1)
    IN IF eq_ignore_ascii_case(format_code, Chars("General"))
       THEN [kind |-> "general", color |-> NoColor]
       ELSE IF bracket_end # 0 /\ eq_ignore_ascii_case(trim(after_bracket), Chars("General"))
       THEN (IF Offset(format_code, bracket_end) < 1 \/ Utf8Len(format_code[1]) # 1
             THEN [kind |-> "panic", color |-> NoColor]
             ELSE [kind |-> "general", color |-> try_parse_color(bracket_content)])
       ELSE [kind |-> "none", color |-> NoColor]

(***************************************************************************)
(* Formatting: a NumberFormat is built from supplied sections, then values *)
(* are formatted with it.                                                  *)
(***************************************************************************)
MaxSupplied == 5

\* The sections that fill the places around the section under study.
FillerSections ==
    {Section(NoCondition, NoColor, <<Digit("Zero")>>),
     Section(Cond("GreaterThan", F(1)), NoColor, <<Digit("Zero")>>)}

RichConditions ==
    {NoCondition, Cond("LessThan", F(0)), Cond("LessOrEqual", F(-1)),
     Cond("GreaterThan", F(1)), Cond("Equal", F(-1)), Cond("NotEqual", F(0))}

RichParts ==
    {<<>>,
     <<Digit("Zero")>>,
     <<Literal(<<"x">>)>>,
     <<Literal(<<"U+00E9">>)>>,
     <<Literal(<<"x", "y">>)>>,
     <<EscapedLiteral(<<"x">>)>>,
     <<Literal(<<"x">>), Literal(<<"y">>)>>,
     <<Bare("TextPlaceholder")>>,
     <<Bare("TextPlaceholder"), Literal(<<"x">>)>>,
     <<Literal(<<"x">>), Bare("TextPlaceholder"), Literal(<<"y">>), Bare("TextPlaceholder")>>,
     <<Bare("TextPlaceholder"), EscapedLiteral(<<"x">>)>>,
     <<Bare("TextPlaceholder"), Digit("Zero")>>,
     <<Bare("Percent")>>,
     <<Fraction(<<"Question">>, 2)>>,
     <<Digit("Zero"), Scientific(TRUE, TRUE), Digit("Zero")>>,
     <<Bare("GeneralNumber"), Literal(<<" ">>)>>,
     <<DatePart("Year4")>>,
     <<Elapsed("Hours"), Literal(<<":">>), DatePart("Minute2")>>}

RichSections == {Section(c, NoColor, p) : c \in RichConditions, p \in RichParts}

\* A list of sections with one section under study at `at`.
SuppliedPool(at, rich, filler) ==
    [i \in 1..Len(filler) |-> IF i = at THEN rich ELSE filler[i]]

\* -2958466, -2, -1, 0, 1, 2, 2.9999999999999996, 2958465, 2958466, and the
\* values that are no numbers
FormatValues ==
    {F(-(MaxSerial + 1)), F(-2), F(-1), F(0), F(1), F(2), <<3, -1>>,
     F(MaxSerial), F(MaxSerial + 1)} \cup SpecialValues

NoText == <<"(none)">>

FormatInit ==
    /\ \E len \in 1..MaxSupplied :
          \E at \in 1..len, rich \in RichSections, filler \in [1..len -> FillerSections] :
             supplied = SuppliedPool(at, rich, filler)
    /\ nf = <<>>
    /\ fvalue = F(0)
    /\ tried = NoResult
    /\ rendered = NoText
    /\ ftext = NoText

\* NumberFormat::from_sections(supplied)
FromSections ==
    /\ nf = <<>>
    /\ supplied # <<>>
    /\ nf' = from_sections(supplied)
    /\ UNCHANGED <<supplied, fvalue, tried, rendered, ftext>>

\* A behaviour makes one formatting call: the NumberFormat is immutable, so
\* what a call returns does not depend on the calls before it.
NotCalled == tried = NoResult /\ rendered = NoText

\* nf.try_format(v, opts)
TryFormat(v, date_system) ==
    /\ nf # <<>>
    /\ NotCalled
    /\ fvalue' = v
    /\ tried' = try_format(nf, v, date_system)
    /\ rendered' = NoText
    /\ UNCHANGED <<supplied, nf, ftext>>

\* nf.format(v, opts)
Format(v, date_system) ==
    /\ nf # <<>>
    /\ NotCalled
    /\ fvalue' = v
    /\ rendered' = format(nf, v, date_system)
    /\ tried' = NoResult
    /\ UNCHANGED <<supplied, nf, ftext>>

\* The texts handed to format_text: empty, plain, an `@`, two bytes.
TextValues == {<<>>, Chars("hi"), <<"@">>, <<"U+00E9">>}

\* nf.format_text(text, opts)
FormatText(text) ==
    /\ nf # <<>>
    /\ NotCalled
    /\ ftext' = text
    /\ rendered' = format_text(nf, text)
    /\ UNCHANGED <<supplied, nf, fvalue, tried>>

NextFormat ==
    \/ FromSections
    \/ \E text \in TextValues : FormatText(text)
    \/ \E v \in FormatValues, date_system \in DateSystems : TryFormat(v, date_system)
    \/ \E v \in FormatValues, date_system \in DateSystems : Format(v, date_system)

FormatIdle ==
    /\ supplied = <<>>
    /\ nf = <<>>
    /\ fvalue = F(0)
    /\ tried = NoResult
    /\ rendered = NoText
    /\ ftext = NoText

(***************************************************************************)
(* Parsing: a format code is parsed token by token, then values are        *)
(* formatted with the NumberFormat it gave.                                *)
(***************************************************************************)
MaxChunks == 3

\* The pieces the format codes of the model are put together from.
Chunks ==
    {<<"0">>, <<";">>, <<"h">>, <<"m">>, <<"[">>, <<"]">>, <<"\"">>, <<"\\">>,
     Chars("General")}

\* Codes longer than MaxChunks pieces.
NamedCodes ==
    {Chars("[h]:mm:ss"), Chars("0;[Red]General"), Chars("0;0;0;0;[Red]General"),
     Chars("0;0;0;0;0"), Chars("h;m;hm;mh;hmm"), Chars("0;General;0"),
     Chars("mmmm"), Chars("mmmmm"), Chars("hm;m"), Chars("hh:mm;mm"),
     Chars("\"h\"m;[h]m;\\hm"), Chars("[;];\\;;\";\""), Chars("@")}

FormatCodes ==
    {Concat(pick) : pick \in UNION {[1..n -> Chunks] : n \in 0..MaxChunks}} \cup NamedCodes

\* 2.9999999999999996, 3, 1.0000000000000002
ParseValues == {<<3, -1>>, F(3), <<1, 1>>}

ParseInit ==
    /\ code \in FormatCodes
    /\ parser = IdleParser
    /\ supplied = <<>>
    /\ nf = <<>>
    /\ fvalue = F(0)
    /\ tried = NoResult
    /\ rendered = NoText
    /\ ftext = NoText

\* A parser that has failed stops.
Settle(p) == IF Failed(p) THEN [p EXCEPT !.phase = "error"] ELSE p

\* parse(code), up to the entry of the Parser's first section.
Parse(choice) ==
    /\ parser.phase = "idle"
    /\ LET check == general_check(code)
       IN IF code = <<>>
          THEN /\ parser' = [parser EXCEPT !.phase = "error",
                                           !.error = [kind |-> "EmptyFormat", position |-> 0]]
               /\ nf' = nf
          ELSE IF check.kind = "panic"
          THEN /\ parser' = [parser EXCEPT !.phase = "panic"]
               /\ nf' = nf
          ELSE IF check.kind = "general"
          THEN /\ parser' = [parser EXCEPT !.phase = "general"]
               /\ nf' = from_sections(<<Section(NoCondition, check.color, <<>>)>>)
          ELSE /\ parser' = Parser_new(code, choice)
               /\ nf' = nf
    /\ UNCHANGED <<code, supplied, fvalue, tried, rendered, ftext>>

\* One iteration of the loop of parse_section.
ParseToken(choice) ==
    /\ parser.phase = "section"
    /\ parser.current.kind \notin {"Eof", "SectionSep"}
    /\ parser' = Settle(parse_section_token(parser, choice))
    /\ UNCHANGED <<code, supplied, nf, fvalue, tried, rendered, ftext>>

\* The end of a section: the next section, or the result of parse.
EndSection(choice) ==
    /\ parser.phase = "section"
    /\ parser.current.kind \in {"Eof", "SectionSep"}
    /\ parser' = Settle(parse_section_exit(parser, choice))
    /\ nf' = IF parser'.phase = "done" THEN from_sections(parser'.sections) ELSE nf
    /\ UNCHANGED <<code, supplied, fvalue, tried, rendered, ftext>>

\* 10^10, 10^11 - 1, 10^11, 484079807176, 999999500000, 2^53 - 1 and their
\* negatives.
WideValues ==
    {Wide(negative, Chars(digits)) :
        negative \in BOOLEAN,
        digits \in {"10000000000", "99999999999", "100000000000", "484079807176",
                    "999999500000", "9007199254740991"}}

\* The formats that hand every number to fallback_format: General, and a
\* lone `@`.
GeneralOrText(sections) ==
    /\ Len(sections) = 1
    /\ sections[1].condition = NoCondition
    /\ sections[1].parts \in {<<>>, <<Bare("TextPlaceholder")>>}

\* The numbers handed to nf.format(v, opts): wide whole numbers too, under
\* General or `@`.
FormatArguments(sections) ==
    IF GeneralOrText(sections) THEN ParseValues \cup WideValues ELSE ParseValues

NextParse ==
    \/ \E choice \in LexerModes : Parse(choice)
    \/ \E choice \in LexerModes : ParseToken(choice)
    \/ \E choice \in LexerModes : EndSection(choice)
    \/ \E v \in ParseValues : TryFormat(v, "Date1900") /\ UNCHANGED parseVars
    \/ \E v \in FormatArguments(nf) : Format(v, "Date1900") /\ UNCHANGED parseVars

(***************************************************************************)
(* parse as one call: what parse(format_code) returns in a build whose     *)
(* generated lexer has the given mode.                                     *)
(***************************************************************************)
Ok(fmt) == [kind |-> "ok", fmt |-> fmt, error |-> NoError]
Err(error) == [kind |-> "err", fmt |-> <<>>, error |-> error]
Panicked == [kind |-> "panic", fmt |-> <<>>, error |-> NoError]

\* One iteration of the loop of parse_section, or the end of a section.
ParserStep(p, mode) ==
    IF p.current.kind \in {"Eof", "SectionSep"}
    THEN Settle(parse_section_exit(p, mode))
    ELSE Settle(parse_section_token(p, mode))

RECURSIVE RunParser(_, _)
\* The loops of Parser::parse and Parser::parse_section, to their end, from
\* the parser state p.
RunParser(p, mode) ==
    CHOOSE end \in {IF at.phase # "section" THEN at ELSE RunParser(ParserStep(at, mode), mode) :
                       at \in {p}} : TRUE

\* What Parser::parse returns, from the parser at its end.
Parsed(p) == IF p.phase = "done" THEN Ok(from_sections(p.sections)) ELSE Err(p.error)

\* parse after the test for the empty code.
ParseChecked(format_code, check, mode) ==
    CASE check.kind = "panic" -> Panicked
      [] check.kind = "general" ->
            Ok(from_sections(<<Section(NoCondition, check.color, <<>>)>>))
      [] check.kind = "none" -> Parsed(RunParser(Parser_new(format_code, mode), mode))

\* parse
parse(format_code, mode) ==
    IF format_code = <<>> THEN Err([kind |-> "EmptyFormat", position |-> 0])
    ELSE ParseChecked(format_code, general_check(format_code), mode)

(***************************************************************************)
(* cache.rs and the convenience function format of lib.rs.  The LruCache   *)
(* is the list of its entries, the most recently used first.               *)
(***************************************************************************)
CACHE_SIZE == 100

Entry(key, value) == [key |-> key, value |-> value]

\* The index of the entry with the key, 0 when there is none.
Position(entries, key) ==
    IF \E i \in 1..Len(entries) : entries[i].key = key
    THEN CHOOSE i \in 1..Len(entries) : entries[i].key = key
    ELSE 0

Without(entries, i) == SubSeq(entries, 1, i - 1) \o SubSeq(entries, i + 1, Len(entries))

\* Mutant: a lookup that leaves the order alone (LruCache::peek).
LruCache_get_Peek(entries, i) == entries

\* LruCache::get on a hit at index i: the entry becomes the most recently
\* used.
LruCache_get(entries, i) == <<entries[i]>> \o Without(entries, i)

\* LruCache::put of a key that is not in the cache: at capacity the least
\* recently used entry goes.
LruCache_put(entries, key, value) ==
    <<Entry(key, value)>>
    \o (IF Len(entries) >= CACHE_SIZE THEN SubSeq(entries, 1, CACHE_SIZE - 1) ELSE entries)

\* static CACHE: Mutex::new(None)
NewCache == [holder |-> 0, poisoned |-> FALSE, initialized |-> FALSE, entries |-> <<>>]

NoOutcome == [kind |-> "none", error |-> NoError, text |-> <<>>]

IdleCall ==
    [pc |-> "idle", code |-> <<>>, value |-> F(0), fmt |-> <<>>, result |-> NoOutcome,
     made |-> 0]

NumThreads == 2
MaxCalls == 3

Threads == 1..NumThreads

RECURSIVE CallsMade(_)
\* The number of calls the threads up to t have made.
CallsMade(t) == IF t = 0 THEN 0 ELSE calls[t].made + CallsMade(t - 1)

\* The k-th of the valid format codes the callers use: two characters.
CodeLetters == <<"0", "#", "?", "h", "m", "d", "y", "s", "@", "%", ",">>

Fresh(k) ==
    <<CodeLetters[((k - 1) \div Len(CodeLetters)) + 1],
      CodeLetters[((k - 1) % Len(CodeLetters)) + 1]>>

\* The process starts with CACHE_SIZE - 1 or CACHE_SIZE calls with codes of
\* their own, one after the other, or with none, before its threads call
\* as they like.
FillSizes == {0, CACHE_SIZE - 1, CACHE_SIZE}

\* The codes of the calls: the least and the most recently used of a filled
\* cache, two that are new to it, the empty code, an unterminated quote and
\* a code on which parse panics.
CallCodes ==
    {Fresh(1), Fresh(CACHE_SIZE), Fresh(CACHE_SIZE + 1), Fresh(CACHE_SIZE + 2),
     <<>>, Chars("0\""), Chars("]General")}

CallValues == {F(-1)}

CacheInit ==
    /\ logos \in LexerModes
    /\ CACHE = NewCache
    /\ uses = <<>>
    /\ calls = [t \in Threads |-> IdleCall]

\* Every thread is between two calls.
Quiet == \A t \in Threads : calls[t].pc \in {"idle", "returned"}

\* The next of the first calls of the process: format(value, code, opts)
\* with a code that was not used before.
FirstCall(value) ==
    /\ Quiet
    /\ CallsMade(NumThreads) = 0
    /\ Len(uses) < CACHE_SIZE
    /\ calls' = [calls EXCEPT ![1] = [IdleCall EXCEPT !.pc = "lock", !.value = value,
                                                     !.code = Fresh(Len(uses) + 1)]]
    /\ UNCHANGED <<logos, CACHE, uses>>

\* A thread calls format(value, format_code, opts).
Call(t, format_code, value) ==
    /\ calls[t].pc \in {"idle", "returned"}
    /\ CallsMade(NumThreads) < MaxCalls
    /\ CallsMade(NumThreads) > 0 \/ (Quiet /\ Len(uses) \in FillSizes)
    /\ calls' = [calls EXCEPT ![t] = [IdleCall EXCEPT !.pc = "lock", !.code = format_code,
                                                     !.value = value,
                                                     !.made = calls[t].made + 1]]
    /\ UNCHANGED <<logos, CACHE, uses>>

\* CACHE.lock().unwrap(): the thread waits while another holds the lock; on
\* a poisoned lock the unwrap panics.
Lock(t) ==
    /\ calls[t].pc = "lock"
    /\ CACHE.holder = 0
    /\ IF CACHE.poisoned
       THEN /\ calls' = [calls EXCEPT ![t].pc = "panicked", ![t].result.kind = "panic"]
            /\ CACHE' = CACHE
       ELSE /\ calls' = [calls EXCEPT ![t].pc = "lookup"]
            /\ CACHE' = [CACHE EXCEPT !.holder = t]
    /\ UNCHANGED <<logos, uses>>

\* get_or_insert_with, then cache.get: a hit returns the clone and drops the
\* guard.
Lookup(t) ==
    /\ calls[t].pc = "lookup"
    /\ LET i == Position(CACHE.entries, calls[t].code)
       IN IF i # 0
          THEN /\ CACHE' = [CACHE EXCEPT !.initialized = TRUE, !.holder = 0,
                                         !.entries = LruCache_get(@, i)]
               /\ calls' = [calls EXCEPT ![t].pc = "format",
                                         ![t].fmt = CACHE.entries[i].value]
               /\ uses' = Append(uses, calls[t].code)
          ELSE /\ CACHE' = [CACHE EXCEPT !.initialized = TRUE]
               /\ calls' = [calls EXCEPT ![t].pc = "parse"]
               /\ uses' = uses
    /\ UNCHANGED logos

\* What get_or_parse does with the result r of parse: Ok goes on to the
\* put, an error returns and drops the guard, a panic unwinds through the
\* guard and poisons the lock.
Missed(t, r) ==
    CASE r.kind = "ok" ->
            /\ calls' = [calls EXCEPT ![t].pc = "put", ![t].fmt = r.fmt]
            /\ CACHE' = CACHE
      [] r.kind = "err" ->
            /\ calls' = [calls EXCEPT ![t].pc = "returned", ![t].result.kind = "err",
                                      ![t].result.error = r.error]
            /\ CACHE' = [CACHE EXCEPT !.holder = 0]
      [] r.kind = "panic" ->
            /\ calls' = [calls EXCEPT ![t].pc = "panicked", ![t].result.kind = "panic"]
            /\ CACHE' = [CACHE EXCEPT !.holder = 0, !.poisoned = TRUE]

\* NumberFormat::parse(format_code)? with the lock held.
ParseMiss(t) ==
    /\ calls[t].pc = "parse"
    /\ Missed(t, parse(calls[t].code, logos))
    /\ UNCHANGED <<logos, uses>>

\* cache.put(format_code, fmt.clone()); Ok(fmt) drops the guard.
Put(t) ==
    /\ calls[t].pc = "put"
    /\ CACHE' = [CACHE EXCEPT !.holder = 0,
                              !.entries = LruCache_put(@, calls[t].code, calls[t].fmt)]
    /\ calls' = [calls EXCEPT ![t].pc = "format"]
    /\ uses' = Append(uses, calls[t].code)
    /\ UNCHANGED logos

\* Ok(fmt.format(value, opts)) of lib.rs
FormatCached(t) ==
    /\ calls[t].pc = "format"
    /\ calls' = [calls EXCEPT ![t].pc = "returned", ![t].result.kind = "ok",
                              ![t].result.text = format(calls[t].fmt, calls[t].value,
                                                        "Date1900")]
    /\ UNCHANGED <<logos, CACHE, uses>>

NextCache ==
    \/ \E v \in CallValues : FirstCall(v)
    \/ \E t \in Threads, c \in CallCodes, v \in CallValues : Call(t, c, v)
    \/ \E t \in Threads : Lock(t)
    \/ \E t \in Threads : Lookup(t)
    \/ \E t \in Threads : ParseMiss(t)
    \/ \E t \in Threads : Put(t)
    \/ \E t \in Threads : FormatCached(t)

CacheIdle ==
    /\ logos = None
    /\ CACHE = NewCache
    /\ calls = <<>>
    /\ uses = <<>>

ParseIdle == code = <<>> /\ parser = IdleParser

\* No function is called.
NoCall == [fn |-> "none", args |-> <<>>]
NotReturned == [done |-> FALSE, value |-> <<>>]
Return(value) == [done |-> TRUE, value |-> value]

CallIdle == applied = NoCall /\ returned = NotReturned

DateIdle == dsys = None /\ dcur = None /\ dserial = None /\ dback = None
SerialIdle == sn = None /\ sdate = None /\ sprev = None

\* The calendar walk alone.
InitDate == DateInit /\ SerialIdle /\ FormatIdle /\ ParseIdle /\ CacheIdle /\ CallIdle
NextDateStep == NextDate /\ UNCHANGED <<serialVars, formatVars, parseVars, cacheVars, callVars>>
SpecDate == InitDate /\ [][NextDateStep]_vars

\* The serial walk alone.
InitSerial == SerialInit /\ DateIdle /\ FormatIdle /\ ParseIdle /\ CacheIdle /\ CallIdle
NextSerialStep == NextSerial /\ UNCHANGED <<dateVars, formatVars, parseVars, cacheVars, callVars>>
SpecSerial == InitSerial /\ [][NextSerialStep]_vars

\* Building a NumberFormat and formatting with it.
InitFormat == FormatInit /\ DateIdle /\ SerialIdle /\ ParseIdle /\ CacheIdle /\ CallIdle
NextFormatStep == NextFormat /\ UNCHANGED <<dateVars, serialVars, parseVars, cacheVars, callVars>>
SpecFormat == InitFormat /\ [][NextFormatStep]_vars

\* Parsing a format code and formatting with the result.
InitParse == ParseInit /\ DateIdle /\ SerialIdle /\ CacheIdle /\ CallIdle
NextParseStep == NextParse /\ UNCHANGED <<dateVars, serialVars, cacheVars, callVars>>
SpecParse == InitParse /\ [][NextParseStep]_vars

\* Threads that format through the cache.
InitCache == CacheInit /\ DateIdle /\ SerialIdle /\ FormatIdle /\ ParseIdle /\ CallIdle
NextCacheStep == NextCache /\ UNCHANGED <<dateVars, serialVars, formatVars, parseVars, callVars>>
SpecCache == InitCache /\ [][NextCacheStep]_vars

(***************************************************************************)
(* Functions called on their own: a behaviour is one call, from its        *)
(* arguments to its return.                                                *)
(***************************************************************************)
Call1(fn, a) == [fn |-> fn, args |-> <<a>>]
Call2(fn, a, b) == [fn |-> fn, args |-> <<a, b>>]

\* -2, -1, the values next to -1, 0, the values next to 1, 1, 2
ConditionValues ==
    {F(-2), F(-1), <<-1, -1>>, <<-1, 1>>, F(0), <<1, -1>>, <<1, 1>>, F(1), F(2)}

ConditionCalls ==
    {Call2(fn, Cond(op, F(n)), v) :
        fn \in {"evaluate", "is_strict_match"}, op \in ConditionOps, n \in {-1, 0, 1},
        v \in ConditionValues}

\* condition.evaluate(value)
Evaluate ==
    /\ applied.fn = "evaluate"
    /\ ~returned.done
    /\ returned' = Return(evaluate(applied.args[1], applied.args[2]))
    /\ UNCHANGED applied

\* condition.is_strict_match(value)
StrictMatch ==
    /\ applied.fn = "is_strict_match"
    /\ ~returned.done
    /\ returned' = Return(is_strict_match(applied.args[1], applied.args[2]))
    /\ UNCHANGED applied

\* The clock around its carries, and the subseconds around the thresholds
\* 0.5, 0.95, 0.995 and 0.9995.
ClockHours == {0, 1, 12, 22, 23}
ClockMinutes == {0, 1, 30, 58, 59}
ClockSeconds == {0, 1, 30, 58, 59}
SubsecondValues == {0, 4999, 5000, 9499, 9500, 9949, 9950, 9994, 9995, 9999}
TimeUnits == {"None", "Hours", "Minutes", "Seconds", "Subseconds"}
Precisions == {NoPrecision} \cup {SomePrecision(n) : n \in 1..3}

PreroundingCalls ==
    {[fn |-> "apply_time_prerounding",
      args |-> <<hour, minute, second, subseconds, smallest_unit, subsecond_precision>>] :
        hour \in ClockHours, minute \in ClockMinutes, second \in ClockSeconds,
        subseconds \in SubsecondValues, smallest_unit \in TimeUnits,
        subsecond_precision \in Precisions}

ApplyTimePrerounding ==
    /\ applied.fn = "apply_time_prerounding"
    /\ ~returned.done
    /\ returned' = Return(apply_time_prerounding(applied.args[1], applied.args[2],
                                                 applied.args[3], applied.args[4],
                                                 applied.args[5], applied.args[6]))
    /\ UNCHANGED applied

\* The inputs of a Lexer: the strings of up to MaxLexLen of these characters,
\* and some longer ones.
MaxLexLen == 4
LexChars == {"m", "s", "0", "[", "]", "\"", "\\"}
LexInputs ==
    UNION {[1..n -> LexChars] : n \in 0..MaxLexLen}
        \cup {Chars("yyyy-mm-dd"), Chars("hh:mm am/pm"), Chars("AM/PMm"), Chars("mM a/p"),
              Chars("dDd\"dd\"d"), Chars("[hh]h\\hh")}

\* The calls made once the input is exhausted.
MaxEofCalls == 2

\* A Lexer and the tokens its calls of next_token have returned so far.
Lexing(lexer, tokens, error) == [lexer |-> lexer, tokens |-> tokens, error |-> error]

EofCalls(tokens) == Cardinality({i \in 1..Len(tokens) : tokens[i].kind = "Eof"})

\* The Lexer after a call of next_token; its user stops at an Err.
Lexed(tokens, step) ==
    IF step.error # NoError
    THEN [done |-> TRUE, value |-> Lexing(step.lexer, tokens, step.error)]
    ELSE [done |-> EofCalls(Append(tokens, step.token)) > MaxEofCalls,
          value |-> Lexing(step.lexer, Append(tokens, step.token), NoError)]

NextToken(choice) ==
    /\ applied.fn = "next_token"
    /\ ~returned.done
    /\ returned' = Lexed(returned.value.tokens, next_token(returned.value.lexer, choice))
    /\ UNCHANGED applied

\* The contents of a bracket that try_parse_elapsed is asked about.
ElapsedContents ==
    {Chars(content) : content \in {"h", "hh", "m", "mm", "s", "ss", "H", "Hh", "MM", "SS",
                                    "hhh", "hm", "d", "Red"}}

ElapsedParseCalls == {Call1("try_parse_elapsed", content) : content \in ElapsedContents}

TryParseElapsed ==
    /\ applied.fn = "try_parse_elapsed"
    /\ ~returned.done
    /\ returned' = Return(try_parse_elapsed(applied.args[1]))
    /\ UNCHANGED applied

\* The serials of format_elapsed: days, seconds around the minute, the hour
\* and the day, and subseconds around 0.5 and 0.9999.
ElapsedDates == {0, 1, 59, 24000}
ElapsedSeconds == {0, 1, 59, 60, 3599, 3600, 10800, 43200, 86339, 86340, 86399}
ElapsedSubseconds == {0, 1, 49999, 50000, 99990, 99991, 99999}

ElapsedCalls ==
    {[fn |-> "format_elapsed", args |-> <<part, date, floored, sub>>] :
        part \in ElapsedKinds, date \in ElapsedDates, floored \in ElapsedSeconds,
        sub \in ElapsedSubseconds}

FormatElapsed ==
    /\ applied.fn = "format_elapsed"
    /\ ~returned.done
    /\ returned' = Return(ElapsedText(applied.args[1], applied.args[2], applied.args[3],
                                      applied.args[4]))
    /\ UNCHANGED applied

\* The parts of a numeric format code of the characters 0 # . , %
NumberParts(format_code) ==
    [i \in 1..Len(format_code) |->
        CASE format_code[i] = "0" -> Digit("Zero")
          [] format_code[i] = "#" -> Digit("Hash")
          [] format_code[i] = "." -> Bare("DecimalPoint")
          [] format_code[i] = "," -> Bare("ThousandsSeparator")
          [] format_code[i] = "%" -> Bare("Percent")]

NumberCodes ==
    {Chars(format_code) :
        format_code \in {"0", "0.0", "0.00", "0%", "0.0%", "0.00%", "#,##0", "#,##0,", "0,",
                         "0.0,", "0,,", "0.00,%"}}

\* The decimals num / den that are formatted: 0.42, 1234567, halves at the
\* last place shown, and others.
NumberValues ==
    {<<0, 1>>, <<42, 100>>, <<15, 10>>, <<5, 1000>>, <<145, 1000>>, <<285, 1000>>,
     <<995, 1000>>, <<1005, 1000>>, <<42567, 1000>>, <<999999, 1000>>, <<1500, 1>>,
     <<2500, 1>>, <<1234567, 1>>, <<999500, 1>>}

\* Two percent signs, on the values that stay below 2^31 when multiplied.
TwicePercentValues == {<<0, 1>>, <<42, 100>>, <<5, 1000>>, <<12345, 10000>>, <<15, 10>>}

NumberCalls ==
    {[fn |-> "format_number", args |-> <<negative, value[1], value[2], format_code>>] :
        negative \in BOOLEAN, value \in NumberValues, format_code \in NumberCodes}
    \cup {[fn |-> "format_number", args |-> <<negative, value[1], value[2], Chars("0%%")>>] :
             negative \in BOOLEAN, value \in TwicePercentValues}

\* format_number on the section of the format code, from analyze_format on.
FormatNumber ==
    /\ applied.fn = "format_number"
    /\ ~returned.done
    /\ returned' =
          Return(format_placeholders(
                     [B64Decimal(applied.args[2], applied.args[3])
                         EXCEPT !.negative = applied.args[1]],
                     analyze_format(Section(NoCondition, NoColor,
                                            NumberParts(applied.args[4])))))
    /\ UNCHANGED applied

\* The values num / den and the layouts of a fraction format: `?/?` to
\* `# ???/?????????`.
FractionValues ==
    {<<0, 1>>, <<1, 5>>, <<13, 100>>, <<127, 1000>>, <<333, 1000>>, <<999, 1000>>,
     <<314, 100>>, <<5, 1>>, <<2, 3>>}

FractionCalls ==
    {[fn |-> "format_fraction",
      args |-> <<negative, value[1], value[2], integer_digits,
                 [i \in 1..numerator_len |-> "Question"], denom_digits>>] :
        negative \in BOOLEAN, value \in FractionValues,
        integer_digits \in {<<>>, <<"Hash">>}, numerator_len \in 1..3,
        denom_digits \in {1, 2, 3, 9}}

FormatFraction ==
    /\ applied.fn = "format_fraction"
    /\ ~returned.done
    /\ returned' = Return(format_fraction_up_to(
                              [B64Decimal(applied.args[2], applied.args[3])
                                  EXCEPT !.negative = applied.args[1]],
                              applied.args[4], applied.args[5], applied.args[6]))
    /\ UNCHANGED applied

\* 0, 0.001 .. 0.5, 1 .. 12345, and the mantissa and exponent placeholders of
\* `0E+0` .. `##0.0E+00`
ScientificValues ==
    {<<0, 1>>, <<1, 1000>>, <<5, 1000>>, <<123, 10000>>, <<5, 100>>, <<1, 10>>, <<5, 10>>,
     <<1, 1>>, <<15, 10>>, <<999, 1>>, <<1000, 1>>, <<1234, 1>>, <<12345, 1>>}

ScientificCalls ==
    {[fn |-> "format_scientific",
      args |-> <<negative, value[1], value[2], places, decimals, exponent_digits, show_plus>>] :
        negative \in BOOLEAN, value \in ScientificValues, places \in 1..3,
        decimals \in 0..1, exponent_digits \in 1..2, show_plus \in BOOLEAN}

FormatScientific ==
    /\ applied.fn = "format_scientific"
    /\ ~returned.done
    /\ returned' = Return(format_scientific_decimal(
                              applied.args[1], applied.args[2], applied.args[3],
                              applied.args[4], applied.args[5], applied.args[6],
                              TRUE, applied.args[7]))
    /\ UNCHANGED applied

CallInit ==
    \/ /\ applied \in ScientificCalls
       /\ returned = NotReturned
    \/ /\ applied \in FractionCalls
       /\ returned = NotReturned
    \/ /\ applied \in NumberCalls
       /\ returned = NotReturned
    \/ /\ applied \in ConditionCalls
       /\ returned = NotReturned
    \/ /\ applied \in PreroundingCalls
       /\ returned = NotReturned
    \/ /\ applied \in ElapsedParseCalls
       /\ returned = NotReturned
    \/ /\ applied \in ElapsedCalls
       /\ returned = NotReturned
    \/ \E input \in LexInputs :
          /\ applied = Call1("next_token", input)
          /\ returned = [done |-> FALSE, value |-> Lexing(Lexer_new(input), <<>>, NoError)]

NextCall ==
    \/ Evaluate
    \/ StrictMatch
    \/ ApplyTimePrerounding
    \/ \E choice \in LexerModes : NextToken(choice)
    \/ TryParseElapsed
    \/ FormatElapsed
    \/ FormatNumber
    \/ FormatFraction
    \/ FormatScientific

\* Calls of single functions.
InitCall == CallInit /\ DateIdle /\ SerialIdle /\ FormatIdle /\ ParseIdle /\ CacheIdle
NextCallStep ==
    NextCall /\ UNCHANGED <<dateVars, serialVars, formatVars, parseVars, cacheVars>>
SpecCall == InitCall /\ [][NextCallStep]_vars

(***************************************************************************)
(* Claims about section selection and the sign.                            *)
(***************************************************************************)
\* try_format has been called and has selected a section.
Called == tried.path \notin {"none", "special"}

HasConditions(sections) == \E i \in 1..Len(sections) : sections[i].condition # NoCondition

(***************************************************************************)
(* C1: when any section has a condition, select_section returns the first  *)
(* section whose condition evaluates true; if no condition evaluates true, *)
(* the first section without a condition; and if every section has a       *)
(* condition and none is true, the last section.                           *)
(***************************************************************************)
C1_FirstTrueCondition ==
    (Called /\ HasConditions(nf)) =>
        LET true_at == {i \in 1..Len(nf) : /\ nf[i].condition # NoCondition
                                           /\ evaluate(nf[i].condition, fvalue)}
            bare_at == {i \in 1..Len(nf) : nf[i].condition = NoCondition}
        IN tried.section = IF true_at # {} THEN Least(true_at)
                           ELSE IF bare_at # {} THEN Least(bare_at)
                           ELSE Len(nf)

(***************************************************************************)
(* C2: when no section has a condition, select_section chooses by count    *)
(* and sign: one section serves every value; with two, negatives take      *)
(* section 2 and the rest section 1; with three or four, positives take    *)
(* section 1, negatives section 2 and zero section 3, except that zero     *)
(* takes section 1 when section 3 holds a TextPlaceholder and no literal   *)
(* or numeric part.                                                        *)
(***************************************************************************)
C2_SelectBySign ==
    (Called /\ ~HasConditions(nf)) =>
        LET text_only ==
                /\ \E p \in Range(nf[3].parts) : p.kind = "TextPlaceholder"
                /\ \A p \in Range(nf[3].parts) :
                        /\ p.kind \notin {"Literal", "EscapedLiteral"}
                        /\ ~is_numeric_part(p)
        IN /\ Len(nf) = 1 => tried.section = 1
           /\ Len(nf) = 2 => tried.section = IF FLt(fvalue, F(0)) THEN 2 ELSE 1
           /\ (Len(nf) \in {3, 4} /\ FGt(fvalue, F(0))) => tried.section = 1
           /\ (Len(nf) \in {3, 4} /\ FLt(fvalue, F(0))) => tried.section = 2
           /\ (Len(nf) \in {3, 4} /\ fvalue = F(0)) =>
                  tried.section = IF text_only THEN 1 ELSE 3

\* A zero sent to section 1 because section 3 is text only.
C2_Witness ==
    /\ Called
    /\ ~HasConditions(nf)
    /\ Len(nf) = 3
    /\ fvalue = F(0)
    /\ nf[3].parts = <<Bare("TextPlaceholder")>>
    /\ tried.section = 1

(***************************************************************************)
(* C3: for a section that is not empty and has no date part, try_format    *)
(* prepends '-' exactly when the format has one section, the value is      *)
(* negative, the section has a numeric part or is one unescaped Literal of *)
(* one character, it has no Fraction and no Scientific part, and no strict *)
(* conditional match made the value absolute.                              *)
(***************************************************************************)
C3_MinusSign ==
    tried.path = "number" =>
        LET section == nf[tried.section]
            one_char_literal == /\ Len(section.parts) = 1
                                /\ section.parts[1].kind = "Literal"
                                /\ Len(section.parts[1].arg) = 1
            made_absolute == /\ section.condition # NoCondition
                             /\ is_strict_match(section.condition, fvalue)
        IN tried.need_minus_sign <=>
              /\ Len(nf) = 1
              /\ FLt(fvalue, F(0))
              /\ ((\E p \in Range(section.parts) : is_numeric_part(p)) \/ one_char_literal)
              /\ ~\E p \in Range(section.parts) : p.kind \in {"Fraction", "Scientific"}
              /\ ~made_absolute

(***************************************************************************)
(* Claims about parse.                                                     *)
(***************************************************************************)
ParseOk == parser.phase \in {"done", "general"}

\* True while the lexer has met no pattern whose outcome depends on the
\* release of the lexer generator.
LexerPinned == parser.lexer.mode = "unknown"

Min(a, b) == IF a < b THEN a ELSE b

RECURSIVE PlainFrom(_, _)
\* The indices, from i on, of the characters of str outside quoted strings,
\* escapes and brackets.  A quote or bracket that is never closed is an
\* ordinary character.
PlainFrom(str, i) ==
    IF i > Len(str) THEN {}
    ELSE LET c == str[i]
             closer == IF c = "[" THEN find(str, "]", i + 1)
                       ELSE IF c = "\"" THEN find(str, "\"", i + 1)
                       ELSE 0
         IN IF c = "\\" /\ i < Len(str) THEN PlainFrom(str, i + 2)
            ELSE IF closer # 0 THEN PlainFrom(str, closer + 1)
            ELSE {i} \cup PlainFrom(str, i + 1)

\* k: the number of `;` of str outside quoted strings, escapes and brackets.
Separators(str) == Cardinality({i \in PlainFrom(str, 1) : str[i] = ";"})

(***************************************************************************)
(* C4: every NumberFormat, built by parse or by from_sections, holds at    *)
(* most 4 sections; when more than 4 are supplied exactly the first 4 are  *)
(* kept in their order and no error is raised.                             *)
(***************************************************************************)
C4_FirstFourKept ==
    /\ Len(nf) <= 4
    /\ (supplied # <<>> /\ nf # <<>>) => nf = SubSeq(supplied, 1, Min(4, Len(supplied)))
    /\ (LexerPinned /\ Separators(code) >= 4) =>
          /\ parser.phase \notin {"error", "panic"}
          /\ ParseOk => Len(nf) = 4
          /\ parser.phase = "done" => nf = SubSeq(parser.sections, 1, 4)

(***************************************************************************)
(* C5: for every format code that parses, the number of sections of the    *)
(* result is min(4, k + 1), k being the number of `;` outside quoted       *)
(* strings, escapes and brackets; also when a section is the keyword       *)
(* General or starts with a bracket prefix.                                *)
(***************************************************************************)
C5_SectionCount == (ParseOk /\ LexerPinned) => Len(nf) = Min(4, Separators(code) + 1)

MonthMinuteKinds ==
    {"Month", "Month2", "MonthAbbr", "MonthFull", "MonthLetter", "Minute", "Minute2"}

IsMonthOrMinute(part) == part.kind = "DatePart" /\ part.arg[1] \in MonthMinuteKinds

MonthMinuteParts(parts) == SelectSeq(parts, IsMonthOrMinute)

\* The number of characters of str before the byte offset.
CharsBefore(str, offset) == CHOOSE n \in 0..Len(str) : ByteLen(SubSeq(str, 1, n)) = offset

RECURSIVE RunsFrom(_, _, _, _, _)
\* What the claim makes of the runs of `m` among the characters i .. to of
\* str, `plain` being the indices outside quotes, escapes and brackets and
\* `hour` saying whether an `h` came before in the section.
RunsFrom(str, plain, i, to, hour) ==
    IF i > to THEN <<>>
    ELSE IF i \notin plain THEN RunsFrom(str, plain, i + 1, to, hour)
    ELSE IF str[i] \in {"h", "H"} THEN RunsFrom(str, plain, i + 1, to, TRUE)
    ELSE IF str[i] \in {"m", "M"}
    THEN LET n == RunLength(str, i, {"m", "M"})
         IN <<DatePart(IF hour THEN (IF n >= 2 THEN "Minute2" ELSE "Minute")
                       ELSE CASE n = 1 -> "Month" [] n = 2 -> "Month2"
                              [] n = 3 -> "MonthAbbr" [] n = 4 -> "MonthFull"
                              [] OTHER -> "MonthLetter")>>
            \o RunsFrom(str, plain, i + n, to, hour)
    ELSE RunsFrom(str, plain, i + 1, to, hour)

\* The month and minute parts the claim gives the text between two byte
\* offsets of the code, read as one section.
ExpectedRuns(from, to) ==
    RunsFrom(code, PlainFrom(code, 1), CharsBefore(code, from) + 1, CharsBefore(code, to),
             FALSE)

(***************************************************************************)
(* C6: within one section a run of `m` parses as Minute (one `m`) or       *)
(* Minute2 (two or more) exactly when an hour token came before it in that *)
(* section, and otherwise as the month part of its length; an `h` of an    *)
(* earlier section does not count.                                         *)
(***************************************************************************)
C6_MinuteAfterHour ==
    /\ \A i \in 1..Len(parser.sections) :
          MonthMinuteParts(parser.sections[i].parts)
              = ExpectedRuns(parser.spans[i][1], parser.spans[i][2])
    /\ parser.phase = "section" =>
          MonthMinuteParts(parser.builder.parts)
              = ExpectedRuns(parser.from, parser.current.start)

C6_Witness ==
    /\ parser.phase = "done"
    /\ Len(parser.sections) = 2
    /\ parser.sections[1].parts = <<DatePart("Hour"), DatePart("Minute")>>
    /\ parser.sections[2].parts = <<DatePart("Month")>>

(***************************************************************************)
(* C7: a serial within 1e-10 of a whole number N >= 1, formatted with      *)
(* `[h]:mm:ss`, gives the hours 24 * N, then `:00:00`.                     *)
(***************************************************************************)
C7_ElapsedWholeDays ==
    (code = Chars("[h]:mm:ss") /\ fvalue[1] >= 1) =>
        /\ Called => (tried.ok /\ tried.text = Digits(24 * fvalue[1]) \o Chars(":00:00"))
        /\ rendered # NoText => rendered = Digits(24 * fvalue[1]) \o Chars(":00:00")

(***************************************************************************)
(* C10: when the selected section has date parts, every value below 0 or   *)
(* above 2958465 formats to the empty string under format and try_format,  *)
(* never an error and never the General fallback.                          *)
(***************************************************************************)
SelectedHasDateParts ==
    /\ nf # <<>>
    /\ has_date_parts(nf[select_section(nf, fvalue)])

OutOfRange(v) == is_finite(v) /\ (FLt(v, F(0)) \/ FGt(v, F(MaxSerial)))

EmptyResult ==
    /\ Called => (tried.ok /\ tried.text = <<>>)
    /\ rendered # NoText => rendered = <<>>

C10_OutOfRangeEmpty == (SelectedHasDateParts /\ OutOfRange(fvalue)) => EmptyResult

(***************************************************************************)
(* C10, amended: the range is tested on the value handed to the date       *)
(* formatter, which is |value| when the selected section's condition       *)
(* strictly matches and the value itself otherwise.                        *)
(***************************************************************************)
FormatValueOf(sections, v) ==
    LET section == sections[select_section(sections, v)]
    IN IF section.condition # NoCondition /\ is_strict_match(section.condition, v)
       THEN FAbs(v) ELSE v

C10_FormatValueOutOfRangeEmpty ==
    (SelectedHasDateParts /\ OutOfRange(FormatValueOf(nf, fvalue))) => EmptyResult

\* A negative serial rendered as the empty string by a date section.
C10_Witness ==
    /\ tried.path = "date"
    /\ FLt(fvalue, F(0))
    /\ tried.ok
    /\ tried.text = <<>>

(***************************************************************************)
(* C11: whatever the sections of the NumberFormat, format and try_format   *)
(* return exactly `NaN` for a NaN, `Infinity` for positive infinity and    *)
(* `-Infinity` for negative infinity: no section is selected, and no       *)
(* literal, sign or placeholder of the format is applied.                  *)
(***************************************************************************)
SpecialText(v) ==
    CASE v = NaN -> Chars("NaN")
      [] v = PosInfinity -> Chars("Infinity")
      [] v = NegInfinity -> Chars("-Infinity")

C11_SpecialValues ==
    fvalue \in SpecialValues =>
        /\ tried # NoResult =>
              /\ tried.ok
              /\ tried.text = SpecialText(fvalue)
              /\ tried.section = 0
              /\ ~tried.need_minus_sign
        /\ rendered # NoText => rendered = SpecialText(fvalue)

\* Negative infinity under a single section of one literal: neither the
\* literal nor the '-' of a negative value is applied.
C11_Witness ==
    /\ fvalue = NegInfinity
    /\ Len(nf) = 1
    /\ nf[1].parts = <<Literal(<<"x">>)>>
    /\ tried.path = "special"
    /\ tried.text = Chars("-Infinity")

(***************************************************************************)
(* C8: serial_to_date(date_to_serial(Y, M, D, sys), sys) = (Y, M, D) for   *)
(* every valid date from the system's day 1 through 9999-12-31, and in the *)
(* 1900 system also for the phantom 1900-02-29, whose serial is 60.        *)
(***************************************************************************)
C8_RoundTrip ==
    /\ dback = dcur
    /\ (dsys = "Date1900" /\ dcur = <<1900, 2, 29>>) => dserial = 60
    /\ dcur = DayOne(dsys) => dserial = 1

C8_Witness == dsys = "Date1900" /\ dcur = <<1900, 2, 29>> /\ dback = <<1900, 2, 29>>

(***************************************************************************)
(* C9: in the 1900 system serial 1 is 1900-01-01, serials 1..59 run from   *)
(* Jan 1 to Feb 28 1900, serial 60 is 1900-02-29, serial 61 is 1900-03-01, *)
(* every later serial is the Gregorian day after the one before it, and    *)
(* serial 2958465 is 9999-12-31.                                           *)
(***************************************************************************)
C9_SerialWalk ==
    /\ sn = 1 => sdate = <<1900, 1, 1>>
    /\ (sn \in 1..31) => sdate = <<1900, 1, sn>>
    /\ (sn \in 32..59) => sdate = <<1900, 2, sn - 31>>
    /\ sn = 60 => sdate = <<1900, 2, 29>>
    /\ sn = 61 => sdate = <<1900, 3, 1>>
    /\ sn > 61 => sdate = GregNext(sprev)
    /\ sn = MaxSerial => sdate = <<9999, 12, 31>>

C9_Witness == sn = MaxSerial /\ sprev = <<9999, 12, 30>>

\* What a part of the text section stands for: its characters when it is a
\* literal, the text when it is `@`, nothing otherwise.
TextPiece(part, text) ==
    IF part.kind \in {"Literal", "EscapedLiteral"} THEN part.arg
    ELSE IF part.kind = "TextPlaceholder" THEN text
    ELSE <<>>

\* C19: format_text returns the text unchanged when the format has fewer
\* than 4 sections; with 4 sections it returns the literals of section 4
\* in order with every `@` replaced by the text, whatever sections 1 to 3
\* hold.
C19_FormatText ==
    (nf # <<>> /\ ftext # NoText) =>
        IF Len(nf) < 4 THEN rendered = ftext
        ELSE rendered = Concat([i \in 1..Len(nf[4].parts) |-> TextPiece(nf[4].parts[i], ftext)])

\* `x@y@` as the fourth section, on the text `hi`.
C19_Witness ==
    /\ Len(nf) = 4
    /\ nf[4].parts = <<Literal(<<"x">>), Bare("TextPlaceholder"), Literal(<<"y">>),
                        Bare("TextPlaceholder")>>
    /\ nf[1].condition # NoCondition
    /\ ftext = Chars("hi")
    /\ rendered = Chars("xhiyhi")

\* The digits of a whole number, with a minus sign when it is negative.
PlainDigits(v) ==
    (IF FLt(v, F(0)) THEN <<"-">> ELSE <<>>)
    \o (IF is_wide(v) THEN v[3] ELSE Digits(Abs(v[1])))

\* C20: under General, and under a lone `@` section, every exact integer v
\* with |v| <= 2^53 - 1 is rendered as its decimal digits with a leading
\* minus when it is negative, never in scientific notation, the integers
\* with |v| >= 10^11 included.
C20_NoScientific ==
    (nf # <<>> /\ GeneralOrText(nf) /\ rendered # NoText /\ ftext = NoText
     /\ is_finite(fvalue) /\ fvalue[2] = 0)
        => rendered = PlainDigits(fvalue)

\* The places of the `[` of a format code that no `]` follows.
OpenBrackets(str) ==
    {i \in 1..Len(str) : str[i] = "[" /\ \A j \in (i + 1)..Len(str) : str[j] # "]"}

\* The format code has no quote and no backslash, so that each of its `[`
\* opens a bracket.
Unquoted(str) == \A i \in 1..Len(str) : str[i] \notin {"\"", "\\"}

\* parse has come to its end.
ParseEnded == parser.phase \in {"done", "general", "error", "panic"}

\* C14: parsing a format code with a `[` that no `]` follows fails with
\* ParseError::UnterminatedBracket at the byte offset of that `[`.
C14_UnterminatedBracket ==
    (ParseEnded /\ Unquoted(code) /\ OpenBrackets(code) # {})
        => /\ parser.phase = "error"
           /\ parser.error.kind = "UnterminatedBracket"
           /\ \E i \in OpenBrackets(code) : parser.error.position = Offset(code, i)

\* C30: parse never aborts: for every format code it ends in Ok with a
\* NumberFormat of at least one section or in Err, also for a code whose
\* `]` comes before any `[` could have been opened (`]General`).
C30_ParseTotal ==
    ParseEnded =>
        \/ ParseOk /\ Len(nf) >= 1
        \/ parser.phase = "error"

(***************************************************************************)
(* The cache.                                                              *)
(***************************************************************************)
\* The call of thread t is over: it returned, or it unwound in a panic.
Ended(t) == calls[t].pc \in {"returned", "panicked"}

Keys(entries) == {entries[i].key : i \in 1..Len(entries)}

\* C12: a call to format with a format code that fails to parse (the empty
\* code gives EmptyFormat) returns that ParseError and no formatted string,
\* and no step of the call changes the entries of the cache.
C12_Returned ==
    \A t \in Threads :
        Ended(t) =>
            LET r == parse(calls[t].code, logos)
            IN r.kind = "err" =>
                  /\ calls[t].result = [NoOutcome EXCEPT !.kind = "err", !.error = r.error]

C12_Untouched ==
    \A t \in Threads :
        (calls[t].pc # calls'[t].pc /\ calls[t].pc # "idle" /\ ~Ended(t)
         /\ parse(calls[t].code, logos).kind = "err")
            => (CACHE'.entries = CACHE.entries /\ uses' = uses)

C12_FailingCodeReturnsError == []C12_Returned /\ [][C12_Untouched]_vars

\* C18: the cache stays usable: whatever calls came before, among them calls
\* that failed or unwound while the lock was held, a call whose format code
\* is valid returns Ok.
C18_CacheStaysUsable ==
    \A t \in Threads :
        (Ended(t) /\ parse(calls[t].code, logos).kind = "ok")
            => (calls[t].pc = "returned" /\ calls[t].result.kind = "ok")

\* The result of get_or_parse in the call of thread t, once it is known.
Got(t) ==
    CASE calls[t].pc = "format" \/ calls[t].result.kind = "ok" -> Ok(calls[t].fmt)
      [] calls[t].result.kind = "err" -> Err(calls[t].result.error)
      [] calls[t].result.kind = "panic" -> Panicked
      [] OTHER -> NoOutcome

\* C15: the cache is transparent: get_or_parse returns what parse returns
\* for the same format code, an equal NumberFormat or the same ParseError,
\* whatever calls, hits, misses and evictions came before.
C15_CacheTransparent ==
    \A t \in Threads :
        Got(t) # NoOutcome =>
            LET r == parse(calls[t].code, logos)
            IN r.kind \in {"ok", "err"} => Got(t) = r

\* The threads inside the critical section of get_or_parse.
Inside == {t \in Threads : calls[t].pc \in {"lookup", "parse", "put"}}

\* C17: under any interleaving of the calls of several threads the lookup,
\* parse and insert of one call are one critical section that no other call
\* enters, no call is left waiting for a lock that nobody holds, and every
\* call of a valid format code comes to its end with a NumberFormat equal
\* to parse of its own code.
C17_Concurrent ==
    /\ Inside = IF CACHE.holder = 0 THEN {} ELSE {CACHE.holder}
    /\ \A t \in Threads :
          Ended(t) =>
             LET r == parse(calls[t].code, logos)
             IN r.kind = "ok" => (calls[t].result.kind = "ok" /\ calls[t].fmt = r.fmt)

\* The place of the last use of a key in the record of the uses.
LastUse(key) ==
    CHOOSE j \in 1..Len(uses) : uses[j] = key /\ \A l \in (j + 1)..Len(uses) : uses[l] # key

\* The key is the least recently used of the keys: every other key has been
\* used after it.
LeastRecentlyUsed(key, keys) ==
    keys \ {key} \subseteq {uses[l] : l \in (LastUse(key) + 1)..Len(uses)}

\* The entries but the one with the key, in their order.
Others(entries, key) == LET Keep(entry) == entry.key # key IN SelectSeq(entries, Keep)

C16_Start ==
    /\ Len(CACHE.entries) <= CACHE_SIZE
    /\ \A key \in Keys(CACHE.entries) : parse(key, logos).kind = "ok"

C16_Hit(key) ==
    /\ Keys(CACHE'.entries) = Keys(CACHE.entries)
    /\ Len(CACHE'.entries) = Len(CACHE.entries)
    /\ Head(CACHE'.entries).key = key
    /\ Others(CACHE'.entries, key) = Others(CACHE.entries, key)

C16_Miss(key) ==
    /\ parse(key, logos).kind = "ok"
    /\ Head(CACHE'.entries).key = key
    /\ IF Len(CACHE.entries) < CACHE_SIZE
       THEN Tail(CACHE'.entries) = CACHE.entries
       ELSE \E gone \in Keys(CACHE.entries) :
               /\ LeastRecentlyUsed(gone, Keys(CACHE.entries))
               /\ Tail(CACHE'.entries) = Others(CACHE.entries, gone)

C16_Step ==
    /\ Len(CACHE'.entries) <= CACHE_SIZE
    /\ Cardinality(Keys(CACHE'.entries)) = Len(CACHE'.entries)
    /\ IF uses' = uses THEN CACHE'.entries = CACHE.entries
       ELSE LET key == uses'[Len(uses')]
            IN IF key \in Keys(CACHE.entries) THEN C16_Hit(key) ELSE C16_Miss(key)

\* C16: the cache holds at most CACHE_SIZE = 100 entries, each under a
\* format code that parsed; a miss on a full cache evicts exactly the
\* entry least recently used (by a hit or by its insertion), and a hit makes
\* its entry the most recently used and leaves the other entries, and the
\* set of keys, as they were.
C16_BoundedLru == C16_Start /\ [][C16_Step]_vars

\* A hit on the least recently used code of a full cache, then a miss: the
\* second code of the cache went, not the first.
C16_Witness ==
    /\ Len(CACHE.entries) = CACHE_SIZE
    /\ CACHE.entries[1].key = Fresh(CACHE_SIZE + 1)
    /\ CACHE.entries[2].key = Fresh(1)
    /\ Fresh(2) \notin Keys(CACHE.entries)

\* The value satisfies the condition and is not at its boundary.
StrictlyWithin(c, v) == c # NoCondition /\ evaluate(c, v) /\ v # c.n

\* try_format selects the same section for v and -v, and both are strictly
\* within its condition.
BothWithin(sections, v) ==
    /\ select_section(sections, FNeg(v)) = select_section(sections, v)
    /\ StrictlyWithin(sections[select_section(sections, v)].condition, FNeg(v))

Returned(fn) == applied.fn = fn /\ returned.done

\* C23: is_strict_match is true only for values that satisfy the condition
\* and are not at its boundary: under `<=`, `>=` and `=` it is false when
\* the value equals the threshold, under `<`, `>` and `<>` it is what
\* evaluate returns, and it always implies evaluate.
C23_StrictMatch ==
    Returned("is_strict_match") =>
        LET c == applied.args[1]
            v == applied.args[2]
        IN /\ (c.op \in {"LessOrEqual", "GreaterOrEqual", "Equal"} /\ v = c.n)
                 => ~returned.value
           /\ c.op \in {"LessThan", "GreaterThan", "NotEqual"}
                 => returned.value = evaluate(c, v)
           /\ returned.value => evaluate(c, v)
\* C29: apply_time_prerounding keeps the clock in range (hour 0..23, minute
\* and second 0..59); when the smallest unit is Seconds or Subseconds the
\* hour and the minute are unchanged, when it is Minutes the hour is
\* unchanged, and when it is None nothing is changed.
C29_Prerounding ==
    Returned("apply_time_prerounding") =>
        LET hour == applied.args[1]
            minute == applied.args[2]
            second == applied.args[3]
            smallest_unit == applied.args[5]
            out == returned.value
        IN /\ out.hour \in 0..23 /\ out.minute \in 0..59 /\ out.second \in 0..59
           /\ smallest_unit \in {"Seconds", "Subseconds"}
                 => out.hour = hour /\ out.minute = minute
           /\ smallest_unit = "Minutes" => out.hour = hour
           /\ smallest_unit = "None" => out = Clock(hour, minute, second)

\* 23:59:59.5 shown to the minute: the second and the minute wrap to 0 and
\* the hour stays.
C29_Witness ==
    /\ Returned("apply_time_prerounding")
    /\ applied.args = <<23, 59, 59, 5000, "Minutes", NoPrecision>>
    /\ returned.value = Clock(23, 0, 0)

\* The letters of the date runs, and the runs of a string: a run starts at
\* the character index i where the letter before is another one, and goes on
\* as long as the same letter follows, in either case.
DateLetters == {"y", "Y", "m", "M", "d", "D", "h", "H", "s", "S"}

SameLetter(a, b) == to_lowercase_char(a) = to_lowercase_char(b)

RunStarts(str) ==
    {i \in 1..Len(str) :
        str[i] \in DateLetters /\ (i > 1 => ~SameLetter(str[i - 1], str[i]))}

RunOf(str, i) == RunLength(str, i, {c \in DateLetters : SameLetter(c, str[i])})

\* The character at the index i is between a `[` and a `]`.
InBrackets(str, i) ==
    \E a \in 1..(i - 1) :
        /\ str[a] = "["
        /\ \A j \in (a + 1)..(i - 1) : str[j] # "]"
        /\ \E b \in (i + 1)..Len(str) : str[b] = "]"

\* The character at the index i is between two quotes.
InQuotes(str, i) ==
    /\ Cardinality({a \in 1..(i - 1) : str[a] = "\""}) % 2 = 1
    /\ \E b \in (i + 1)..Len(str) : str[b] = "\""

\* The characters from the index i to i + n - 1 meet an AM/PM marker.
InAmPm(str, i, n) ==
    \E a \in 1..Len(str) :
        /\ a + 4 <= Len(str)
        /\ to_lowercase(SubSeq(str, a, a + 4)) = Chars("am/pm")
        /\ a <= i + n - 1
        /\ i <= a + 4

\* Once a token from behind the run of n letters at the index i has been
\* returned, the tokens hold the n tokens of the run, one character each and
\* in a row, between a token that ends before the run and one that starts
\* behind it.
RunReturned(tokens, str, i, n) ==
    LET start == Offset(str, i)
        kind == RunTokens[to_lowercase_char(str[i])]
    IN (\E t \in 1..Len(tokens) : tokens[t].start >= start + n)
          => \E j \in 1..Len(tokens) :
                /\ j + n <= Len(tokens)
                /\ \A k \in 0..(n - 1) :
                      tokens[j + k] = Token(kind, <<>>, start + k, start + k + 1)
                /\ j > 1 => tokens[j - 1].end <= start
                /\ tokens[j + n].start >= start + n

\* Every call after the first Eof returns Eof.
EofForever(tokens) ==
    \A t \in 1..Len(tokens) :
        tokens[t].kind = "Eof" => \A u \in t..Len(tokens) : tokens[u].kind = "Eof"

\* The calls of next_token on a Lexer.
LexerCalled == applied.fn = "next_token"

\* C22 as stated: every maximal run of N identical date letters outside
\* brackets and quoted strings comes back as N tokens of the letter's kind,
\* the i-th with the span [start + i, start + i + 1), before any token of
\* what follows the run, and once the input is exhausted every call returns
\* Eof.
C22_LetterRuns ==
    LexerCalled =>
        LET str == applied.args[1]
            tokens == returned.value.tokens
        IN /\ \A i \in RunStarts(str) :
                 (~InBrackets(str, i) /\ ~InQuotes(str, i))
                    => RunReturned(tokens, str, i, RunOf(str, i))
           /\ EofForever(tokens)

\* C22, amended: the same for the runs that are outside brackets, quoted
\* strings and escapes as a reading from the left delimits them (a backslash
\* takes the character behind it, a quote or bracket behind a backslash
\* opens nothing) and that meet no AM/PM marker; the letter behind a
\* backslash is the character of an EscapedChar token, and the letters of
\* AM/PM are part of an AmPm token.
C22_PlainLetterRuns ==
    LexerCalled =>
        LET str == applied.args[1]
            tokens == returned.value.tokens
        IN /\ \A i \in RunStarts(str) \cap PlainFrom(str, 1) :
                 ~InAmPm(str, i, RunOf(str, i))
                    => RunReturned(tokens, str, i, RunOf(str, i))
           /\ EofForever(tokens)

\* `yyyy-mm-dd` has been read to its end and past it: four Year tokens, a
\* Minus, two Month tokens, a Minus, two Day tokens, then Eof at every call.
C22_Witness ==
    /\ LexerCalled
    /\ applied.args[1] = Chars("yyyy-mm-dd")
    /\ returned.done
    /\ Len(returned.value.tokens) = 10 + MaxEofCalls + 1
    /\ returned.value.tokens[7] = Token("Month", <<>>, 6, 7)

\* The one-letter kind of an elapsed kind.
OneLetter(part) ==
    CASE part = "Hours2" -> "Hours" [] part = "Minutes2" -> "Minutes"
      [] part = "Seconds2" -> "Seconds" [] OTHER -> part

\* The two-digit kind that a bracket content of two letters stands for.
TwoDigitKind(content) ==
    CASE to_lowercase(content) = Chars("hh") -> "Hours2"
      [] to_lowercase(content) = Chars("mm") -> "Minutes2"
      [] to_lowercase(content) = Chars("ss") -> "Seconds2"
      [] OTHER -> None

\* C27: `[hh]`, `[mm]` and `[ss]` parse to Hours2, Minutes2 and Seconds2,
\* which render the total of the one-letter kind padded with zeros to at
\* least two digits: `[hh]` on 0.125 (3 hours) gives `03`.
C27_TwoDigitElapsed ==
    /\ (Returned("try_parse_elapsed") /\ TwoDigitKind(applied.args[1]) # None)
          => /\ returned.value = TwoDigitKind(applied.args[1])
             /\ to_lowercase(applied.args[1]) = Chars("hh")
                   => ElapsedText(returned.value, 0, 10800, 0) = Chars("03")
    /\ (Returned("format_elapsed") /\ applied.args[1] # OneLetter(applied.args[1]))
          => returned.value =
                LET total == ElapsedText(OneLetter(applied.args[1]), applied.args[2],
                                         applied.args[3], applied.args[4])
                IN IF Len(total) < 2 THEN <<"0">> \o total ELSE total

\* The elapsed time in whole seconds, a half second and more rounding up.
RoundedSeconds(date, floored, sub) ==
    date * 86400 + floored + (IF 2 * sub >= ElapsedUnits THEN 1 ELSE 0)

\* C28: with R the elapsed time in seconds rounded half up, `[s]` shows R,
\* `[m]` shows floor(R / 60) and `[h]` shows floor(R / 3600).
C28_ElapsedConsistent ==
    (Returned("format_elapsed") /\ applied.args[1] = OneLetter(applied.args[1]))
        => LET R == RoundedSeconds(applied.args[2], applied.args[3], applied.args[4])
           IN returned.value =
                 CASE applied.args[1] = "Seconds" -> Digits(R)
                   [] applied.args[1] = "Minutes" -> Digits(R \div 60)
                   [] applied.args[1] = "Hours" -> Digits(R \div 3600)

\* One day and 23:59:59.5 in minutes: the half second carries into the
\* minute, and 48 hours are 2880 minutes.
C28_Witness ==
    /\ Returned("format_elapsed")
    /\ applied.args = <<"Minutes", 1, 86399, 50000>>
    /\ returned.value = Chars("2880")

IsDigitChar(ch) == ch \in {"0", "1", "2", "3", "4", "5", "6", "7", "8", "9"}

\* The digits of a text, without its separators and signs.
OnlyDigits(text) == SelectSeq(text, IsDigitChar)

Count(str, ch) == Cardinality({i \in 1..Len(str) : str[i] = ch})

\* The commas behind the last digit placeholder of a format code.
CommasAtEnd(format_code) ==
    Cardinality({i \in 1..Len(format_code) :
                    /\ format_code[i] = ","
                    /\ \A j \in i..Len(format_code) : format_code[j] \notin {"0", "#", "."}})

\* The digit placeholders behind the decimal point of a format code.
DecimalPlaces(format_code) ==
    Cardinality({i \in 1..Len(format_code) :
                    /\ format_code[i] \in {"0", "#"}
                    /\ \E j \in 1..(i - 1) : format_code[j] = "."})

RECURSIVE BigTimes(_, _, _)
BigTimes(a, k, count) == IF count = 0 THEN a ELSE BigTimes(BigMul(a, k), k, count - 1)

RECURSIVE BigOver(_, _, _)
BigOver(a, k, count) == IF count = 0 THEN a ELSE BigOver(BigDivRem(a, k).q, k, count - 1)

\* num / den * 100^p / 1000^c * 10^d rounded to a whole number, a half and
\* more rounding up: floor((2 * N + D) / (2 * D)) for the quotient N / D.
ScaledDigits(num, den, p, c, d) ==
    LET N == BigTimes(BigMul(BigFromInt(num), Pow(10, d)), 100, p)
        D == BigTimes(BigFromInt(den), 1000, c)
        rounded == BigOver(BigDivRem(BigDivRem(BigAdd(BigMul(N, 2), D), 2).q, den).q, 1000, c)
        digits == BigDigits(rounded)
    IN [i \in 1..(IF d + 1 > Len(digits) THEN d + 1 - Len(digits) ELSE 0) |-> "0"] \o digits

\* C21: a numeric section with p percent signs and c trailing commas shows
\* the digits of |v| * 100^p / 1000^c rounded half away from zero to the
\* number of its decimal placeholders.
C21_ScaledDigits ==
    Returned("format_number") =>
        OnlyDigits(returned.value) =
            ScaledDigits(applied.args[2], applied.args[3], Count(applied.args[4], "%"),
                         CommasAtEnd(applied.args[4]), DecimalPlaces(applied.args[4]))

\* The text behind the first `/`, up to the spaces that pad it.
Denominator(text) ==
    LET slash == find(text, "/", 1)
    IN OnlyDigits(SubSeq(text, slash + 1, Len(text)))

\* C25: under a denominator of up to k digits the denominator shown is at
\* least 1 and at most 10^min(k, 7) - 1, in the mixed and in the improper
\* layout.
C25_DenominatorDigits ==
    (Returned("format_fraction") /\ find(returned.value, "/", 1) # 0)
        => LET k == applied.args[6]
           IN /\ Len(Denominator(returned.value)) <= (IF k > 7 THEN 7 ELSE k)
              /\ Denominator(returned.value) # <<>>
              /\ \E i \in 1..Len(Denominator(returned.value)) :
                    Denominator(returned.value)[i] # "0"

\* The exponent that a scientific text shows behind its `E`.
ShownExponent(text) ==
    LET at == find(text, "E", 1)
        minus == at < Len(text) /\ text[at + 1] = "-"
        digits == OnlyDigits(SubSeq(text, at + 1, Len(text)))
    IN IF minus THEN 0 - DecimalValue(digits, 0) ELSE DecimalValue(digits, 0)

\* 10^exponent <= num / den
AtLeastPower(num, den, exponent) ==
    IF exponent >= 0 THEN den * Pow(10, exponent) <= num ELSE den <= num * Pow(10, -exponent)

\* C26: with n > 1 placeholders before the decimal point of the mantissa the
\* exponent is the greatest multiple of n that does not exceed
\* floor(log10 |v|), for every v that is not 0, so that the mantissa
\* |v| / 10^exponent is in [1, 10^n).
C26_EngineeringExponent ==
    (Returned("format_scientific") /\ applied.args[2] # 0 /\ applied.args[4] > 1)
        => LET exponent == ShownExponent(returned.value)
               n == applied.args[4]
           IN /\ exponent % n = 0
              /\ AtLeastPower(applied.args[2], applied.args[3], exponent)
              /\ ~AtLeastPower(applied.args[2], applied.args[3], exponent + n)

====
